---- MODULE Spec2Model ----
(***************************************************************************)
(* Session lifecycle core of the sentiment-tracker bot:                    *)
(*   - SessionData (src/src/session_data.py): participant tracking,        *)
(*     submit / complete_session / is_complete;                            *)
(*   - ThreadSafeSessionStore (src/src/session_store.py): the registry of  *)
(*     live sessions behind one threading.Lock.                            *)
(*                                                                         *)
(* Python objects live in `heap`; the registry and every thread hold       *)
(* references (indices into heap), so aliasing is what the code has: the   *)
(* object get_session returns is the object modify_session mutates.        *)
(* Each thread runs one call at a time; a call is a sequence of steps, one *)
(* per statement that reads or writes shared state, so that statements of  *)
(* different threads interleave as CPython's interpreter lets them.        *)
(*                                                                         *)
(* Two drivers use the code, and a run has one of them:                    *)
(*   "app"  - the bot: threads construct a session and hand it to the      *)
(*            registry at once (app.py), and from then on reach it only    *)
(*            through the registry's methods;                              *)
(*   "test" - one thread that constructs a SessionData and calls its       *)
(*            methods directly (tests/test_session_lifecycle.py).          *)
(*                                                                         *)
(* The Scheduler (src/src/scheduler.py) is modelled next to them: its      *)
(* background thread, the threads that call schedule() and shutdown(),     *)
(* the clock and the worker pool.  Every `with self._lock:` block of the   *)
(* scheduler is one step: the lock is a Condition, nothing blocks while    *)
(* holding it, and wait() gives it up in the step that starts waiting.     *)
(* Spec leaves the scheduler as constructed; SchedSpec leaves the store    *)
(* empty.  FairSpec is Spec with threads that keep running.  ViewSpec has  *)
(* one thread that takes the dict of get_all_sessions() and changes it.    *)
(* AppSpec puts registry and scheduler together as app.py does: the        *)
(* /gather-feedback handler, the modal handler (slack_bot/handlers.py),    *)
(* the expiry and reminder callbacks, with the scheduler's Condition as a  *)
(* lock that its callers own from one step to the next.  The modal handler *)
(* reads updated_session.is_complete after modify_session has returned,    *)
(* in a step of its own.  GatherSpec runs /gather-feedback commands with   *)
(* their own session ids against a registry with a limit.  DataSpec is the *)
(* test driver alone, with add_feedback next to submit.                    *)
(*                                                                         *)
(* Not modelled: created_at / last_accessed_at, anonymized_summary,        *)
(* feedback_sentiment / feedback_well / feedback_improve, reason,          *)
(* initiator_user_id, channel_id.  They are written but never read by any  *)
(* condition of session_data.py or session_store.py.                       *)
(***************************************************************************)
EXTENDS Integers, Sequences, FiniteSets, TLC

(* ----------------------------- bounds ---------------------------------- *)
MaxObjs == 2       \* SessionData objects alive at one time
MaxTasks == 3      \* tasks that schedule() accepts in one run
MaxTime == 1       \* the clock runs from 0 to MaxTime
MaxShutdowns == 2  \* calls of shutdown() in one run
MaxFeedback == 3   \* feedback items a session gets from add_feedback callers

Threads == {"t1", "t2"}
Main == "t1"                            \* the thread of the "test" driver
SessionIds == {"s1", "s2"}
Participants == {"A", "B"}
Outsiders == {"X"}                      \* ids that are in no target list
UserIds == Participants \cup Outsiders
\* (user_id, feedback_item) of a submission: every user has one text
Submissions == {<<"A", "a">>, <<"B", "b">>, <<"X", "x">>}
\* target_user_ids: the lists of distinct ids the membership lookups return
TargetLists == {<< >>, <<"A", "B">>}
\* the lists the bot makes a session of: it makes none of an empty list
MemberLists == TargetLists \ {<< >>}
MaxSessionsArgs == {0, 1, 2}            \* max_sessions; 0 stands for None and 0

None == 0          \* Python None, as a reference
NoThread == "none"

VARIABLES
    driver,         \* "app" or "test"
    _sessions,      \* ThreadSafeSessionStore._sessions: session id -> reference
    _max_sessions,  \* ThreadSafeSessionStore._max_sessions (Unlimited for None)
    _lock,          \* ThreadSafeSessionStore._lock: its owner, or NoThread
    heap,           \* the SessionData objects, by reference (Free: no object)
    pc,             \* per thread: the statement it is at
    call,           \* per thread: arguments, locals and outcome of its call
    held,           \* the test driver's variable `session`
    acked           \* per object: users whose submit returned normally

VARIABLES
    now,            \* time.time()
    _queue,         \* Scheduler._queue: the items in the heap
    _task_counter,  \* Scheduler._task_counter: the id the next call gets
    _running,       \* Scheduler._running
    thread,         \* Scheduler._thread: where _run is, and its locals
    sched,          \* per thread: its call of schedule()
    stopper,        \* the thread that calls shutdown(); pending: the ids
                    \* that were in the queue when its call began
    executor_open,  \* the ThreadPoolExecutor accepts work
    log             \* the tasks handed to the worker pool, in order

VARIABLES
    view,           \* the dict a caller got from get_all_sessions()
    flow,           \* per thread: the handler or callback of app.py it runs
    cond,           \* Scheduler._lock (a Condition): its owner, or NoThread
    callbacks,      \* per task id: the callback schedule() was given
    reports,        \* the reports posted to the channel, by the path that posted
    notices         \* the expiry notices sent to the initiator

svars == << now, _queue, _task_counter, _running, thread, sched, stopper,
            executor_open, log >>

avars == << view, flow, cond, callbacks, reports, notices >>

vars == << driver, _sessions, _max_sessions, _lock, heap, pc, call, held, acked,
           now, _queue, _task_counter, _running, thread, sched, stopper,
           executor_open, log, view, flow, cond, callbacks, reports, notices >>

Range(s) == {s[i] : i \in 1..Len(s)}

(* ------------------------- SessionData --------------------------------- *)

\* SessionData.__init__
SessionData(session_id, target_user_ids) ==
    [ session_id       |-> session_id,
      target_user_ids  |-> target_user_ids,
      feedback_items   |-> << >>,
      pending_users    |-> Range(target_user_ids),
      submitted_users  |-> {},
      _is_complete     |-> FALSE ]

\* a completion test that looks at the flag only
is_complete_FlagOnly(s) == s._is_complete

\* SessionData.is_complete (property)
is_complete(s) == s._is_complete \/ s.pending_users = {}

\* SessionData.add_feedback: self.feedback_items.append(feedback_item)
add_feedback(s, feedback_item) ==
    [s EXCEPT !.feedback_items = Append(@, feedback_item)]

\* a complete_session that flips the flag
complete_session_Toggle(s) == [s EXCEPT !._is_complete = ~@]

\* a complete_session that sets nothing
complete_session_Skip(s) == s

\* SessionData.complete_session
complete_session(s) == [s EXCEPT !._is_complete = TRUE]

\* The exception classes behind the error kinds
ExceptionType(kind) ==
    CASE kind = "AlreadySubmitted"  -> "AlreadySubmittedError"
      [] kind = "NotAParticipant"   -> "ValueError"
      [] kind = "NotFound"          -> "ValueError"
      [] kind = "NotFoundForUpdate" -> "ValueError"
      [] kind = "CapacityExceeded"  -> "ValueError"
      [] kind = "DuplicateId"       -> "ValueError"
      [] kind = "KeyError"          -> "KeyError"
      [] OTHER                      -> "none"

\* submit without its first guard
SubmitCheck_NoDuplicateGuard(s, user_id) ==
    IF user_id \notin s.pending_users THEN "NotAParticipant" ELSE ""

\* submit without its second guard
SubmitCheck_NoMemberGuard(s, user_id) ==
    IF user_id \in s.submitted_users THEN "AlreadySubmitted" ELSE ""

\* SessionData.submit, the two guards: the error kind raised, "" for none
SubmitCheck(s, user_id) ==
    IF user_id \in s.submitted_users THEN "AlreadySubmitted"
    ELSE IF user_id \notin s.pending_users THEN "NotAParticipant"
    ELSE ""

\* SessionData.submit: self.feedback_items.append(feedback_item)
SubmitAppend(s, feedback_item) ==
    [s EXCEPT !.feedback_items = Append(@, feedback_item)]

\* submit that leaves the user pending
SubmitRemove_Keep(s, user_id) == s

\* SessionData.submit: self.pending_users.remove(user_id)
SubmitRemove(s, user_id) ==
    [s EXCEPT !.pending_users = @ \ {user_id}]

\* submit that writes the set of submitters rather than adding to it
SubmitAdd_Overwrite(s, user_id) == [s EXCEPT !.submitted_users = {user_id}]

\* SessionData.submit: self.submitted_users.add(user_id)
SubmitAdd(s, user_id) ==
    [s EXCEPT !.submitted_users = @ \cup {user_id}]

\* What a reader of a session sees of it
Snapshot(s) ==
    [ pending_users   |-> s.pending_users,
      submitted_users |-> s.submitted_users,
      feedback_items  |-> s.feedback_items ]

NoSnapshot == [ pending_users |-> {}, submitted_users |-> {}, feedback_items |-> << >> ]

(* ------------------------- objects and references ---------------------- *)

Refs == 1..MaxObjs

\* A reference that no object is behind
Free == SessionData("", << >>)

Live(o) == heap[o] # Free

\* The reference the next constructed object gets
Alloc(h) == CHOOSE o \in Refs : h[o] = Free /\ \A n \in Refs : n < o => h[n] # Free

\* Room for one more object
Room == \E o \in Refs : heap[o] = Free

\* The objects that the registry, a frame of a thread, the test's variable,
\* a dict from get_all_sessions() or a local of a handler refers to
Referenced(store, calls, variable) ==
    ({store[sid] : sid \in DOMAIN store}
        \cup {view[sid] : sid \in DOMAIN view}
        \cup {flow[t].session : t \in DOMAIN flow}
        \cup {calls[t].session : t \in DOMAIN calls}
        \cup {calls[t].result : t \in DOMAIN calls}
        \cup {variable}) \ {None}

\* Reference counting: an object nothing refers to is gone
Collect(h, refs) == [o \in Refs |-> IF o \in refs THEN h[o] ELSE Free]

\* The acknowledgements of the objects that are left
Acked(h, a) == [o \in Refs |-> IF h[o] = Free THEN {} ELSE a[o]]

(* ------------------------- thread state -------------------------------- *)

NoStore == [sid \in SessionIds |-> None]

IdleCall ==
    [ op              |-> "none",
      session_id      |-> "",
      target_user_ids |-> << >>,    \* of the session the caller constructed
      user_id         |-> "",
      feedback_item   |-> "",
      session         |-> None,       \* the local `session` / `session_data`
      exc             |-> "",         \* the error kind raised, "" for none
      result          |-> None,       \* the reference returned
      snap            |-> NoSnapshot, \* the session as read
      store0          |-> NoStore,    \* _sessions when the lock was taken
      contended       |-> "",         \* the id a modifier ran on when the call began
      overlap         |-> FALSE ]     \* the call overlapped a modifier on its session

ModifyOps == {"modify_session"}
SubmitOps == ModifyOps \cup {"submit"}

\* The statements of SessionData.submit past its guards
SubmitBodyPcs == {"submit_append", "submit_remove", "submit_add"}
\* The statements a modify_session call runs between lookup and return
ModifierPcs == {"submit_check"} \cup SubmitBodyPcs

Stored == {sid \in SessionIds : _sessions[sid] # None}

\* ThreadSafeSessionStore.count
count == Cardinality(Stored)

Unlimited == 0

\* a pop that leaves the entry in the dict
pop_Keep(store, session_id) == store

\* self._sessions.pop(session_id, None): the dict afterwards; what the call
\* returns is the entry before, None for an absent id
pop(store, session_id) == [store EXCEPT ![session_id] = None]

\* ThreadSafeSessionStore.__init__: max_sessions if (max_sessions or 0) > 0 else None
NormalizeMax(max_sessions) == IF max_sessions > 0 THEN max_sessions ELSE Unlimited

(* ------------------------- Scheduler: data ---------------------------- *)

\* delay_seconds of a call of schedule()
Delays == -1..MaxTime

TaskIds == 0..(MaxTasks - 1)

\* _ScheduledItem.__init__; not_before and pops are not fields of the code:
\* the clock of the call that made the item plus the delay it asked for, and
\* the number of items the loop had popped when the item was pushed
ScheduledItem(run_at, task_id, not_before, pops) ==
    [ run_at |-> run_at, task_id |-> task_id,
      not_before |-> not_before, pops |-> pops ]

NoItem == ScheduledItem(0, -1, 0, 0)

\* an item order that serves equal fire times last in, first out
lt_Lifo(a, b) ==
    a.run_at < b.run_at \/ (a.run_at = b.run_at /\ a.task_id > b.task_id)

\* _ScheduledItem.__lt__: (run_at, task_id) < (other.run_at, other.task_id)
lt(a, b) ==
    a.run_at < b.run_at \/ (a.run_at = b.run_at /\ a.task_id < b.task_id)

\* self._queue[0]: the least item of the heap
Peek(queue) == CHOOSE a \in queue : \A b \in queue \ {a} : lt(a, b)

\* a pop that leaves the item in the heap
heappop_Keep(queue) == queue

\* heapq.heappop(self._queue): the heap without its least item
heappop(queue) == queue \ {Peek(queue)}

\* a counter that does not advance
count_next_Stuck(n) == n

\* next(self._task_counter) on itertools.count(): the call returns the
\* counter's value; this is the counter afterwards
count_next(n) == n + 1

\* heapq.heappush(self._queue, item)
heappush(queue, item) == queue \cup {item}

\* a schedule() that accepts every delay
ScheduleCheck_Any(delay_seconds) == ""

\* a schedule() that raises once the scheduler is stopped
ScheduleCheck_Stopped(delay_seconds) ==
    IF delay_seconds < 0 \/ ~_running THEN "InvalidDelay" ELSE ""

\* schedule: if delay_seconds < 0: raise ValueError
ScheduleCheck(delay_seconds) == IF delay_seconds < 0 THEN "InvalidDelay" ELSE ""

\* schedule: run_at = time.time() + delay_seconds
RunAt(t, delay_seconds) == t + delay_seconds

\* a loop that takes every item for due
Remaining_None(item, t) == 0

\* _run: delay = next_item.run_at - now
Remaining(item, t) == item.run_at - t

\* a loop that serves the queue before it looks at _running
LoopDecision_Drain(running, queue, t) ==
    IF queue = {} THEN (IF running THEN "wait" ELSE "exited")
    ELSE IF Remaining(Peek(queue), t) > 0 THEN "timed_wait"
    ELSE "submit"

\* a loop that does not look at _running
LoopDecision_NoStop(running, queue, t) ==
    IF queue = {} THEN "wait"
    ELSE IF Remaining(Peek(queue), t) > 0 THEN "timed_wait"
    ELSE "submit"

\* _run, one pass under the lock: where the thread is next.  "wait": the
\* untimed wait; "exited": break; "timed_wait": wait(timeout=delay);
\* "submit": the item is popped and goes to the pool
LoopDecision(running, queue, t) ==
    IF running /\ queue = {} THEN "wait"
    ELSE IF ~running THEN "exited"
    ELSE IF Remaining(Peek(queue), t) > 0 THEN "timed_wait"
    ELSE "submit"

\* a loop that an exception of executor.submit ends
AfterSubmit_Uncaught(outcome) == IF outcome = "rejected" THEN "crashed" ELSE "top"

\* _run: try: self._executor.submit(...) except Exception: log; the loop goes on
AfterSubmit(outcome) == "top"

\* a notify() that wakes nobody
Notify_Lost(th) == th

\* self._lock.notify(): a thread that waits on the condition wakes up
Notify(th) ==
    IF th.pc \in {"wait", "timed_wait"} THEN [th EXCEPT !.pc = "top"] ELSE th

\* wait(timeout=delay) has timed out at clock t
TimedOut(th, t) == th.pc = "timed_wait" /\ t >= th.wake_at

\* A thread that is not in schedule().  shutdowns is not a local of the
\* code: the calls of shutdown() that had returned when schedule() was called
IdleSchedule ==
    [ pc |-> "idle", delay |-> 0, run_at |-> 0, scheduled_at |-> 0,
      task_id |-> NoItem.task_id, exc |-> "", shutdowns |-> 0 ]

\* The number of items the loop has popped
Pops == Len(log) + (IF thread.pc = "submit" THEN 1 ELSE 0)

\* Scheduler.__init__, with the clock at 0 and the pool open
SchedulerInit ==
    /\ now = 0
    /\ _queue = {}
    /\ _task_counter = 0
    /\ _running = TRUE
    /\ thread = [pc |-> "top", next_item |-> NoItem, wake_at |-> 0]
    /\ sched = [t \in Threads |-> IdleSchedule]
    /\ stopper = [pc |-> "idle", pending |-> {}, calls |-> 0]
    /\ executor_open = TRUE
    /\ log = << >>

\* A thread that runs no handler and no callback
IdleFlow ==
    [ fn           |-> "none",   \* "gather", "modal", "expire" or "remind"
      stage        |-> "",       \* where in the function the thread is
      task_id      |-> NoItem.task_id,  \* of the callback a worker runs
      session_id   |-> "",       \* the session id a handler made or a callback got
      minutes      |-> 0,        \* time_in_minutes of the /gather-feedback command
      session      |-> None,     \* the local `session` / `updated_session`
      removals     |-> 0,        \* calls of remove_session made by the callback
      got          |-> FALSE,    \* remove_session returned a session
      has_feedback |-> FALSE ]   \* bool(session.feedback_items)

\* A task id that schedule() has not given out: no callback, no arguments
NoCallback == [fn |-> "none", session_id |-> ""]

\* No snapshot taken, no handler running, nothing scheduled or posted
AppInit ==
    /\ view = NoStore
    /\ flow = [t \in Threads |-> IdleFlow]
    /\ cond = NoThread
    /\ callbacks = [id \in TaskIds |-> NoCallback]
    /\ reports = << >>
    /\ notices = 0

Init ==
    /\ SchedulerInit
    /\ AppInit
    /\ driver \in {"app", "test"}
    /\ _sessions = NoStore
    /\ _max_sessions \in {NormalizeMax(m) : m \in MaxSessionsArgs}
    /\ driver = "test" => _max_sessions = Unlimited
    /\ _lock = NoThread
    /\ heap = [o \in Refs |-> Free]
    /\ pc = [t \in Threads |-> "idle"]
    /\ call = [t \in Threads |-> IdleCall]
    /\ held = None
    /\ acked = [o \in Refs |-> {}]

Goto(t, where) == pc' = [pc EXCEPT ![t] = where]

(* ------------------------- the test driver ----------------------------- *)

\* session = SessionData(session_id, ..., target_user_ids)
New(t, session_id, target_user_ids) ==
    /\ driver = "test" /\ t = Main
    /\ pc[t] = "idle"
    /\ LET h == Collect(heap, Referenced(_sessions, call, None))
           o == Alloc(h)
       IN /\ heap' = [h EXCEPT ![o] = SessionData(session_id, target_user_ids)]
          /\ acked' = [r \in Refs |-> {}]
          /\ held' = o
    /\ UNCHANGED << driver, _sessions, _max_sessions, _lock, pc, call >>

\* session.submit(user_id, feedback_item)
CallSubmit(t, user_id, feedback_item) ==
    /\ driver = "test" /\ t = Main
    /\ pc[t] = "idle"
    /\ held # None
    /\ call' = [call EXCEPT ![t] =
                   [IdleCall EXCEPT !.op = "submit",
                                    !.user_id = user_id,
                                    !.feedback_item = feedback_item,
                                    !.session = held,
                                    !.snap = Snapshot(heap[held])]]
    /\ Goto(t, "submit_check")
    /\ UNCHANGED << driver, _sessions, _max_sessions, _lock, heap, held, acked >>

\* session.complete_session(summary)
CallComplete(t) ==
    /\ driver = "test" /\ t = Main
    /\ pc[t] = "idle"
    /\ held # None
    /\ call' = [call EXCEPT ![t] =
                   [IdleCall EXCEPT !.op = "complete_session", !.session = held]]
    /\ Goto(t, "complete_session")
    /\ UNCHANGED << driver, _sessions, _max_sessions, _lock, heap, held, acked >>

(* ------------------------- the registry lock --------------------------- *)

\* a store whose methods do not wait for the lock
LockFree_NoLock == TRUE

\* threading.Lock: free to take
LockFree == _lock = NoThread

\* The session id a modifier of another thread is running on, "" for none
ModifierRunning(t) ==
    IF \E u \in Threads \ {t} : pc[u] \in ModifierPcs /\ call[u].op \in ModifyOps
    THEN call[CHOOSE u \in Threads \ {t} :
                 pc[u] \in ModifierPcs /\ call[u].op \in ModifyOps].session_id
    ELSE ""

\* A thread enters a method of the store and arrives at `with self._lock:`.
\* Which method, and its arguments, are local to the thread until it owns the
\* lock; they are fixed in the step that takes the lock.
Call(t) ==
    /\ driver = "app"
    /\ pc[t] = "idle"
    /\ call' = [call EXCEPT ![t] = [IdleCall EXCEPT !.contended = ModifierRunning(t)]]
    /\ Goto(t, "acquire")
    /\ UNCHANGED << driver, _sessions, _max_sessions, _lock, heap, held, acked >>

\* with self._lock: the thread owns the lock and runs the method's first statement
Enter(t, c, first) ==
    /\ pc[t] = "acquire"
    /\ LockFree
    /\ _lock' = t
    /\ call' = [call EXCEPT ![t] =
                   [c EXCEPT !.store0 = _sessions,
                             !.overlap = c.op \in ModifyOps
                                         /\ call[t].contended = c.session_id]]
    /\ Goto(t, first)
    /\ UNCHANGED << driver, _sessions, _max_sessions, heap, held, acked >>

\* add_session without the limit check
AddSessionCheck_NoLimit(session_id) ==
    IF session_id \in Stored THEN "DuplicateId" ELSE ""

\* add_session without the duplicate check
AddSessionCheck_NoDuplicate(session_id) ==
    IF _max_sessions # Unlimited /\ count >= _max_sessions THEN "CapacityExceeded"
    ELSE ""

\* add_session with the duplicate check before the limit check
AddSessionCheck_DuplicateFirst(session_id) ==
    IF session_id \in Stored THEN "DuplicateId"
    ELSE IF _max_sessions # Unlimited /\ count >= _max_sessions THEN "CapacityExceeded"
    ELSE ""

\* add_session: the limit check, then the duplicate check
AddSessionCheck(session_id) ==
    IF _max_sessions # Unlimited /\ count >= _max_sessions THEN "CapacityExceeded"
    ELSE IF session_id \in Stored THEN "DuplicateId"
    ELSE ""

\* new_session = SessionData(...); session_store.add_session(new_session)
add_session(t, session_id, target_user_ids) ==
    /\ pc[t] = "acquire"
    /\ Room \/ AddSessionCheck(session_id) # ""
    /\ Enter(t, [IdleCall EXCEPT !.op = "add_session",
                                 !.session_id = session_id,
                                 !.target_user_ids = target_user_ids], "add_check")

\* updated = SessionData(...); store.update_session(updated)
update_session(t, session_id, target_user_ids) ==
    /\ pc[t] = "acquire"
    /\ Room \/ session_id \notin Stored
    /\ Enter(t, [IdleCall EXCEPT !.op = "update_session",
                                 !.session_id = session_id,
                                 !.target_user_ids = target_user_ids], "update")

\* session = store.get_session(session_id), by a caller that then reads it
get_session(t, session_id) ==
    Enter(t, [IdleCall EXCEPT !.op = "get_session", !.session_id = session_id], "get")

\* store.remove_session(session_id)
remove_session(t, session_id) ==
    Enter(t, [IdleCall EXCEPT !.op = "remove_session", !.session_id = session_id],
          "remove")

\* store.mark_done(session_id)
mark_done(t, session_id) ==
    Enter(t, [IdleCall EXCEPT !.op = "mark_done", !.session_id = session_id],
          "mark_done_pop")

\* store.modify_session(session_id, _apply_feedback), from the modal handler:
\* the modifier's first statement is session.submit(user_id, feedback_item)
modify_session(t, session_id, user_id, feedback_item) ==
    Enter(t, [IdleCall EXCEPT !.op = "modify_session",
                              !.session_id = session_id,
                              !.user_id = user_id,
                              !.feedback_item = feedback_item], "modify_lookup")

\* store.submit_feedback(session_id, user_id, feedback_item):
\* return self.modify_session(session_id, _apply), _apply being session.submit(...)
submit_feedback(t, session_id, user_id, feedback_item) ==
    modify_session(t, session_id, user_id, feedback_item)

(* ------------------ ThreadSafeSessionStore, under the lock ------------- *)

AddCheck(t) ==
    /\ pc[t] = "add_check"
    /\ LET e == AddSessionCheck(call[t].session_id) IN
        /\ call' = [call EXCEPT ![t].exc = e]
        /\ Goto(t, IF e = "" THEN "add_insert" ELSE "return")
    /\ UNCHANGED << driver, _sessions, _max_sessions, _lock, heap, held, acked >>

\* add_session: self._sessions[session_data.session_id] = session_data
AddInsert(t) ==
    /\ pc[t] = "add_insert"
    /\ Room
    /\ LET o == Alloc(heap)
           store == [_sessions EXCEPT ![call[t].session_id] = o]
           h == [heap EXCEPT ![o] = SessionData(call[t].session_id,
                                                call[t].target_user_ids)]
       IN /\ _sessions' = store
          /\ call' = [call EXCEPT ![t].session = o]
          /\ heap' = Collect(h, Referenced(store, call', held))
          /\ acked' = [r \in Refs |-> IF heap'[r] = Free \/ r = o THEN {} ELSE acked[r]]
    /\ Goto(t, "return")
    /\ UNCHANGED << driver, _max_sessions, _lock, held >>

\* get_session: session = self._sessions.get(session_id); return session.
\* The with block ends; a caller that got a session goes on to read it, a
\* caller that got None returns.
Get(t) ==
    /\ pc[t] = "get"
    /\ LET session == _sessions[call[t].session_id] IN
        IF session = None
        THEN /\ call' = [call EXCEPT ![t] = IdleCall]
             /\ Goto(t, "idle")
        ELSE /\ call' = [call EXCEPT ![t] =
                            [IdleCall EXCEPT !.op = "get_session",
                                             !.session_id = call[t].session_id,
                                             !.result = session]]
             /\ Goto(t, "read")
    /\ _lock' = NoThread
    /\ UNCHANGED << driver, _sessions, _max_sessions, heap, held, acked >>

\* A modifier of another thread is running on object o
ModifierRunningOn(t, o) ==
    \E u \in Threads \ {t} :
        pc[u] \in ModifierPcs /\ call[u].op \in ModifyOps /\ call[u].session = o

\* The caller of get_session reads the session it was given, without the lock:
\* _send_pending_reminder, handle_feedback_button_click, process_feedback
Read(t) ==
    /\ pc[t] = "read"
    /\ call' = [call EXCEPT ![t] = IdleCall]
    /\ heap' = Collect(heap, Referenced(_sessions, call', held))
    /\ acked' = Acked(heap', acked)
    /\ Goto(t, "idle")
    /\ UNCHANGED << driver, _sessions, _max_sessions, _lock, held >>

\* update_session: replace the stored object, or raise for an unknown id
Update(t) ==
    /\ pc[t] = "update"
    /\ IF call[t].session_id \in Stored
       THEN /\ Room
            /\ LET o == Alloc(heap)
                   store == [_sessions EXCEPT ![call[t].session_id] = o]
                   h == [heap EXCEPT ![o] = SessionData(call[t].session_id,
                                                        call[t].target_user_ids)]
               IN /\ _sessions' = store
                  /\ call' = [call EXCEPT ![t].session = o]
                  /\ heap' = Collect(h, Referenced(store, call', held))
                  /\ acked' = [r \in Refs |->
                                 IF heap'[r] = Free \/ r = o THEN {} ELSE acked[r]]
       ELSE /\ call' = [call EXCEPT ![t].exc = "NotFoundForUpdate"]
            /\ UNCHANGED << _sessions, heap, acked >>
    /\ Goto(t, "return")
    /\ UNCHANGED << driver, _max_sessions, _lock, held >>

\* modify_session: session = self._sessions.get(session_id); raise if None;
\* else call modifier(session), whose first statement is session.submit(...)
ModifyLookup(t) ==
    /\ pc[t] = "modify_lookup"
    /\ LET session == _sessions[call[t].session_id] IN
        IF session = None
        THEN /\ call' = [call EXCEPT ![t].exc = "NotFound"]
             /\ Goto(t, "return")
        ELSE /\ call' = [call EXCEPT ![t].session = session,
                                     ![t].snap = Snapshot(heap[session])]
             /\ Goto(t, "submit_check")
    /\ UNCHANGED << driver, _sessions, _max_sessions, _lock, heap, held, acked >>

\* remove_session: return self._sessions.pop(session_id, None)
Remove(t) ==
    /\ pc[t] = "remove"
    /\ call' = [call EXCEPT ![t].result = _sessions[call[t].session_id]]
    /\ _sessions' = pop(_sessions, call[t].session_id)
    /\ Goto(t, "return")
    /\ UNCHANGED << driver, _max_sessions, _lock, heap, held, acked >>

\* mark_done: with self._lock: session = self._sessions.pop(session_id, None)
\* The with block ends here, so the lock is released before complete_session.
MarkDonePop(t) ==
    /\ pc[t] = "mark_done_pop"
    /\ LET session == _sessions[call[t].session_id] IN
        IF session = None
        THEN /\ call' = [call EXCEPT ![t] = IdleCall]
             /\ Goto(t, "idle")
        ELSE /\ call' = [call EXCEPT ![t] =
                            [IdleCall EXCEPT !.op = "mark_done",
                                             !.session_id = call[t].session_id,
                                             !.session = session]]
             /\ Goto(t, "complete_session")
    /\ _sessions' = pop(_sessions, call[t].session_id)
    /\ _lock' = NoThread
    /\ UNCHANGED << driver, _max_sessions, heap, held, acked >>

(* ------------------------- SessionData, as steps ----------------------- *)

\* submit: the guards
SubmitGuards(t) ==
    /\ pc[t] = "submit_check"
    /\ LET e == SubmitCheck(heap[call[t].session], call[t].user_id) IN
        /\ call' = [call EXCEPT ![t].exc = e]
        /\ Goto(t, IF e = "" THEN "submit_append" ELSE "return")
    /\ UNCHANGED << driver, _sessions, _max_sessions, _lock, heap, held, acked >>

\* submit: self.feedback_items.append(feedback_item)
SubmitAppendStep(t) ==
    /\ pc[t] = "submit_append"
    /\ heap' = [heap EXCEPT ![call[t].session] = SubmitAppend(@, call[t].feedback_item)]
    /\ Goto(t, "submit_remove")
    /\ UNCHANGED << driver, _sessions, _max_sessions, _lock, call, held, acked >>

\* submit: self.pending_users.remove(user_id); set.remove raises KeyError
\* for a missing element
SubmitRemoveStep(t) ==
    /\ pc[t] = "submit_remove"
    /\ IF call[t].user_id \in heap[call[t].session].pending_users
       THEN /\ heap' = [heap EXCEPT ![call[t].session] = SubmitRemove(@, call[t].user_id)]
            /\ Goto(t, "submit_add")
            /\ UNCHANGED call
       ELSE /\ call' = [call EXCEPT ![t].exc = "KeyError"]
            /\ Goto(t, "return")
            /\ UNCHANGED heap
    /\ UNCHANGED << driver, _sessions, _max_sessions, _lock, held, acked >>

\* submit: self.submitted_users.add(user_id); modify_session then returns
\* the session
SubmitAddStep(t) ==
    /\ pc[t] = "submit_add"
    /\ heap' = [heap EXCEPT ![call[t].session] = SubmitAdd(@, call[t].user_id)]
    /\ call' = [call EXCEPT ![t].result =
                    IF call[t].op \in ModifyOps THEN call[t].session ELSE None]
    /\ Goto(t, "return")
    /\ UNCHANGED << driver, _sessions, _max_sessions, _lock, held, acked >>

\* complete_session, called by mark_done on the popped session or directly;
\* it returns None and so does mark_done
CompleteSession(t) ==
    /\ pc[t] = "complete_session"
    /\ call' = [call EXCEPT ![t] = IdleCall]
    /\ heap' = Collect([heap EXCEPT ![call[t].session] = complete_session(@)],
                       Referenced(_sessions, call', held))
    /\ acked' = Acked(heap', acked)
    /\ Goto(t, "idle")
    /\ UNCHANGED << driver, _sessions, _max_sessions, _lock, held >>

(* ------------------------- returning ----------------------------------- *)

\* a with block that keeps the lock when its body raises
exit_lock_KeepOnRaise(lock, t, exc) ==
    IF lock = t /\ exc = "" THEN NoThread ELSE lock

\* `with self._lock:` is left, by return or by an exception: the owner
\* releases the lock (a call that left the block earlier owns none)
exit_lock(lock, t, exc) == IF lock = t THEN NoThread ELSE lock

\* The call returns or raises; leaving the with block releases the lock
Return(t) ==
    /\ pc[t] = "return"
    /\ _lock' = exit_lock(_lock, t, call[t].exc)
    /\ call' = [call EXCEPT ![t] = IdleCall]
    /\ heap' = Collect(heap, Referenced(_sessions, call', held))
    /\ acked' = [r \in Refs |->
                   IF heap'[r] = Free THEN {}
                   ELSE IF r = call[t].session /\ call[t].exc = ""
                           /\ call[t].op \in SubmitOps
                        THEN acked[r] \cup {call[t].user_id}
                        ELSE acked[r]]
    /\ Goto(t, "idle")
    /\ UNCHANGED << driver, _sessions, _max_sessions, held >>

(* ------------------------- specification ------------------------------- *)

Next ==
    /\ UNCHANGED svars
    /\ UNCHANGED avars
    /\ \E t \in Threads :
        \/ \E sid \in SessionIds, targets \in TargetLists : New(t, sid, targets)
        \/ \E s \in Submissions : CallSubmit(t, s[1], s[2])
        \/ CallComplete(t)
        \/ Call(t)
        \/ \E sid \in SessionIds, targets \in MemberLists : add_session(t, sid, targets)
        \/ \E sid \in SessionIds, targets \in MemberLists : update_session(t, sid, targets)
        \/ \E sid \in SessionIds : get_session(t, sid)
        \/ \E sid \in SessionIds : remove_session(t, sid)
        \/ \E sid \in SessionIds : mark_done(t, sid)
        \/ \E sid \in SessionIds, s \in Submissions : modify_session(t, sid, s[1], s[2])
        \/ \E sid \in SessionIds, s \in Submissions : submit_feedback(t, sid, s[1], s[2])
        \/ AddCheck(t)
        \/ AddInsert(t)
        \/ Get(t)
        \/ Read(t)
        \/ Update(t)
        \/ ModifyLookup(t)
        \/ Remove(t)
        \/ MarkDonePop(t)
        \/ SubmitGuards(t)
        \/ SubmitAppendStep(t)
        \/ SubmitRemoveStep(t)
        \/ SubmitAddStep(t)
        \/ CompleteSession(t)
        \/ Return(t)

Spec == Init /\ [][Next]_vars

\* A step of a call that is past `with self._lock:`
Proceed(t) ==
    /\ UNCHANGED svars
    /\ UNCHANGED avars
    /\ \/ AddCheck(t) \/ AddInsert(t) \/ Get(t) \/ Read(t) \/ Update(t)
       \/ ModifyLookup(t) \/ Remove(t) \/ MarkDonePop(t)
       \/ SubmitGuards(t) \/ SubmitAppendStep(t) \/ SubmitRemoveStep(t)
       \/ SubmitAddStep(t) \/ CompleteSession(t) \/ Return(t)

\* The step that takes the lock, whatever the method
Acquire(t) ==
    /\ UNCHANGED svars
    /\ UNCHANGED avars
    /\ \/ \E sid \in SessionIds, targets \in MemberLists : add_session(t, sid, targets)
       \/ \E sid \in SessionIds, targets \in MemberLists : update_session(t, sid, targets)
       \/ \E sid \in SessionIds : get_session(t, sid)
       \/ \E sid \in SessionIds : remove_session(t, sid)
       \/ \E sid \in SessionIds : mark_done(t, sid)
       \/ \E sid \in SessionIds, s \in Submissions : modify_session(t, sid, s[1], s[2])

\* Every thread keeps running, and a thread that waits for a lock which is
\* free again and again gets it: threading.Lock.acquire() blocks until then
StoreFairness == \A t \in Threads : WF_vars(Proceed(t)) /\ SF_vars(Acquire(t))

FairSpec == Init /\ [][Next]_vars /\ StoreFairness

(* ------------------ SessionData, used on its own ----------------------- *)

\* session.add_feedback(feedback_item), one statement on the object
AddFeedback(t, feedback_item) ==
    /\ driver = "test" /\ t = Main
    /\ pc[t] = "idle"
    /\ held # None
    /\ Len(heap[held].feedback_items) < MaxFeedback
    /\ heap' = [heap EXCEPT ![held] = add_feedback(@, feedback_item)]
    /\ UNCHANGED << driver, _sessions, _max_sessions, _lock, pc, call, held, acked >>

\* One thread with a SessionData of its own, as the tests of SessionData
DataInit == Init /\ driver = "test"

DataNext ==
    /\ UNCHANGED svars
    /\ UNCHANGED avars
    /\ \/ \E sid \in SessionIds, targets \in TargetLists : New(Main, sid, targets)
       \/ \E s \in Submissions : CallSubmit(Main, s[1], s[2])
       \/ CallComplete(Main)
       \/ \E s \in Submissions : AddFeedback(Main, s[2])
       \/ SubmitGuards(Main)
       \/ SubmitAppendStep(Main)
       \/ SubmitRemoveStep(Main)
       \/ SubmitAddStep(Main)
       \/ CompleteSession(Main)
       \/ Return(Main)

DataSpec == DataInit /\ [][DataNext]_vars

(* ------------------ get_all_sessions and its caller -------------------- *)

\* dict(self._sessions): a new dict with the same keys and the same values,
\* the values being the references the registry holds
dict(d) == [k \in DOMAIN d |-> d[k]]

\* all_sessions = store.get_all_sessions() (get_active_sessions is the same
\* call): with self._lock: return dict(self._sessions)
get_all_sessions(t) ==
    /\ pc[t] = "idle"
    /\ LockFree
    /\ view' = dict(_sessions)
    /\ heap' = Collect(heap, Referenced(_sessions, call, held)
                                \cup ({view'[sid] : sid \in SessionIds} \ {None}))
    /\ acked' = Acked(heap', acked)
    /\ UNCHANGED << driver, _sessions, _max_sessions, _lock, pc, call, held >>

\* all_sessions[session_id] = other, or del all_sessions[session_id]
\* (other = None): the caller writes an entry of the dict it got
ViewSetItem(t, session_id, other) ==
    /\ pc[t] = "idle"
    /\ view[session_id] # other
    /\ view' = [view EXCEPT ![session_id] = other]
    /\ heap' = Collect(heap, ({_sessions[sid] : sid \in SessionIds}
                                \cup {view'[sid] : sid \in SessionIds}
                                \cup {call[u].session : u \in Threads}
                                \cup {call[u].result : u \in Threads}
                                \cup {held}) \ {None})
    /\ acked' = Acked(heap', acked)
    /\ UNCHANGED << driver, _sessions, _max_sessions, _lock, pc, call, held >>

\* all_sessions[session_id].submit(user_id, feedback_item), the whole call
ViewSubmit(t, session_id, user_id, feedback_item) ==
    /\ pc[t] = "idle"
    /\ view[session_id] # None
    /\ SubmitCheck(heap[view[session_id]], user_id) = ""
    /\ heap' = [heap EXCEPT ![view[session_id]] =
                    SubmitAdd(SubmitRemove(SubmitAppend(@, feedback_item), user_id),
                              user_id)]
    /\ acked' = [acked EXCEPT ![view[session_id]] = @ \cup {user_id}]
    /\ UNCHANGED << driver, _sessions, _max_sessions, _lock, pc, call, held, view >>

\* all_sessions[session_id].complete_session(summary)
ViewComplete(t, session_id) ==
    /\ pc[t] = "idle"
    /\ view[session_id] # None
    /\ ~heap[view[session_id]]._is_complete
    /\ heap' = [heap EXCEPT ![view[session_id]] = complete_session(@)]
    /\ UNCHANGED << driver, _sessions, _max_sessions, _lock, pc, call, held, acked,
                    view >>

\* The caller changes the dict it got or a session it reaches through it
ViewMutation(t) ==
    \/ \E sid \in SessionIds, o \in Refs \cup {None} :
            (o = None \/ o \in {view[s] : s \in SessionIds}) /\ ViewSetItem(t, sid, o)
    \/ \E sid \in SessionIds, s \in Submissions : ViewSubmit(t, sid, s[1], s[2])
    \/ \E sid \in SessionIds : ViewComplete(t, sid)

\* A registry with sessions in it and one thread, as in
\* tests/test_session_store.py
ViewInit ==
    /\ SchedulerInit
    /\ AppInit
    /\ driver = "app"
    /\ _sessions = NoStore
    /\ _max_sessions = Unlimited
    /\ _lock = NoThread
    /\ heap = [o \in Refs |-> Free]
    /\ pc = [t \in Threads |-> "idle"]
    /\ call = [t \in Threads |-> IdleCall]
    /\ held = None
    /\ acked = [o \in Refs |-> {}]

ViewNext ==
    /\ UNCHANGED svars
    /\ UNCHANGED << flow, cond, callbacks, reports, notices >>
    /\ \/ /\ UNCHANGED view
          /\ \/ Call(Main)
             \/ \E sid \in SessionIds, targets \in MemberLists :
                    add_session(Main, sid, targets)
             \/ \E sid \in SessionIds : get_session(Main, sid)
             \/ \E sid \in SessionIds : remove_session(Main, sid)
             \/ AddCheck(Main)
             \/ AddInsert(Main)
             \/ Get(Main)
             \/ Read(Main)
             \/ Remove(Main)
             \/ Return(Main)
       \/ get_all_sessions(Main)
       \/ ViewMutation(Main)

ViewSpec == ViewInit /\ [][ViewNext]_vars

(* ------------------------- Scheduler: steps ---------------------------- *)

storevars == << driver, _sessions, _max_sessions, _lock, heap, pc, call, held, acked >>

\* The calls of schedule() that are past the check and have no id yet
Admitted == {c \in Threads : sched[c].pc = "take_id"}

\* scheduler.schedule(delay_seconds, callback): the check of the delay and
\* run_at = time.time() + delay_seconds
ScheduleCall(c, delay_seconds) ==
    /\ sched[c].pc = "idle"
    /\ _task_counter + Cardinality(Admitted) < MaxTasks
    /\ now + delay_seconds <= MaxTime
    /\ LET e == ScheduleCheck(delay_seconds) IN
        sched' = [sched EXCEPT ![c] =
            IF e # ""
            THEN [IdleSchedule EXCEPT !.pc = "return", !.delay = delay_seconds,
                                      !.exc = e, !.shutdowns = stopper.calls]
            ELSE [IdleSchedule EXCEPT !.pc = "take_id", !.delay = delay_seconds,
                                      !.scheduled_at = now,
                                      !.shutdowns = stopper.calls,
                                      !.run_at = RunAt(now, delay_seconds)]]
    /\ UNCHANGED << now, _queue, _task_counter, _running, thread, stopper,
                    executor_open, log >>

\* schedule: task_id = next(self._task_counter)
TakeId(c) ==
    /\ sched[c].pc = "take_id"
    /\ sched' = [sched EXCEPT ![c].task_id = _task_counter, ![c].pc = "push"]
    /\ _task_counter' = count_next(_task_counter)
    /\ UNCHANGED << now, _queue, _running, thread, stopper, executor_open, log >>

\* schedule: with self._lock: heapq.heappush(self._queue, item); notify();
\* return task_id
Push(c) ==
    /\ sched[c].pc = "push"
    /\ _queue' = heappush(_queue,
                    ScheduledItem(sched[c].run_at, sched[c].task_id,
                                  sched[c].scheduled_at + sched[c].delay, Pops))
    /\ thread' = Notify(thread)
    /\ sched' = [sched EXCEPT ![c] = IdleSchedule]
    /\ UNCHANGED << now, _task_counter, _running, stopper, executor_open, log >>

\* schedule: the ValueError leaves the call
ScheduleReturn(c) ==
    /\ sched[c].pc = "return"
    /\ sched' = [sched EXCEPT ![c] = IdleSchedule]
    /\ UNCHANGED << now, _queue, _task_counter, _running, thread, stopper,
                    executor_open, log >>

\* _run: one pass of the while loop under the lock, up to a wait, the break
\* or the pop
Loop ==
    /\ thread.pc = "top"
    /\ LET d == LoopDecision(_running, _queue, now) IN
        IF d = "submit"
        THEN /\ thread' = [thread EXCEPT !.pc = d, !.next_item = Peek(_queue)]
             /\ _queue' = heappop(_queue)
        ELSE IF d = "timed_wait"
        THEN /\ thread' = [thread EXCEPT !.pc = d,
                               !.wake_at = now + Remaining(Peek(_queue), now)]
             /\ UNCHANGED _queue
        ELSE /\ thread' = [thread EXCEPT !.pc = d]
             /\ UNCHANGED _queue
    /\ UNCHANGED << now, _task_counter, _running, sched, stopper, executor_open, log >>

\* _run: self._lock.wait(timeout=delay) times out; continue
Timeout ==
    /\ TimedOut(thread, now)
    /\ thread' = [thread EXCEPT !.pc = "top", !.wake_at = 0]
    /\ UNCHANGED << now, _queue, _task_counter, _running, sched, stopper,
                    executor_open, log >>

\* _run: self._executor.submit(next_item.callback, ...), outside the lock; a
\* pool that was shut down raises, which is logged
Submit ==
    /\ thread.pc = "submit"
    /\ LET outcome == IF executor_open THEN "submitted" ELSE "rejected" IN
        /\ log' = Append(log, [ item |-> thread.next_item, outcome |-> outcome ])
        /\ thread' = [thread EXCEPT !.pc = AfterSubmit(outcome), !.next_item = NoItem]
    /\ UNCHANGED << now, _queue, _task_counter, _running, sched, stopper,
                    executor_open >>

\* A worker of the pool runs a submitted callback and the callback raises;
\* the Future keeps what it raised.  One callback misbehaves at most.
CallbackRaises(i) ==
    /\ i \in 1..Len(log)
    /\ log[i].outcome = "submitted"
    /\ \A j \in 1..Len(log) : log[j].outcome # "raised"
    /\ log' = [log EXCEPT ![i].outcome = "raised"]
    /\ UNCHANGED << now, _queue, _task_counter, _running, thread, sched, stopper,
                    executor_open >>

\* executor.shutdown()
ExecutorShutdown ==
    /\ executor_open
    /\ executor_open' = FALSE
    /\ UNCHANGED << now, _queue, _task_counter, _running, thread, sched, stopper, log >>

\* The clock advances
Tick ==
    /\ now < MaxTime
    /\ now' = now + 1
    /\ UNCHANGED << _queue, _task_counter, _running, thread, sched, stopper,
                    executor_open, log >>

\* shutdown: with self._lock: self._running = False; self._lock.notify()
ShutdownSet ==
    /\ stopper.pc = "idle"
    /\ stopper.calls < MaxShutdowns
    /\ _running' = FALSE
    /\ thread' = Notify(thread)
    /\ stopper' = [stopper EXCEPT !.pc = "join",
                                  !.pending = {item.task_id : item \in _queue}]
    /\ UNCHANGED << now, _queue, _task_counter, sched, executor_open, log >>

\* shutdown: self._thread.join()
ShutdownJoin ==
    /\ stopper.pc = "join"
    /\ thread.pc \in {"exited", "crashed"}
    /\ stopper' = [stopper EXCEPT !.pc = "return"]
    /\ UNCHANGED << now, _queue, _task_counter, _running, thread, sched,
                    executor_open, log >>

\* shutdown returns
ShutdownReturn ==
    /\ stopper.pc = "return"
    /\ stopper' = [stopper EXCEPT !.pc = "idle", !.pending = {},
                                  !.calls = stopper.calls + 1]
    /\ UNCHANGED << now, _queue, _task_counter, _running, thread, sched,
                    executor_open, log >>

\* The store as constructed, with no limit, and the scheduler as constructed
SchedInit ==
    /\ SchedulerInit
    /\ AppInit
    /\ driver = "app"
    /\ _sessions = NoStore
    /\ _max_sessions = Unlimited
    /\ _lock = NoThread
    /\ heap = [o \in Refs |-> Free]
    /\ pc = [t \in Threads |-> "idle"]
    /\ call = [t \in Threads |-> IdleCall]
    /\ held = None
    /\ acked = [o \in Refs |-> {}]

SchedNext ==
    /\ UNCHANGED storevars
    /\ UNCHANGED avars
    /\ \/ \E c \in Threads, d \in Delays : ScheduleCall(c, d)
       \/ \E c \in Threads : TakeId(c)
       \/ \E c \in Threads : Push(c)
       \/ \E c \in Threads : ScheduleReturn(c)
       \/ Loop
       \/ Timeout
       \/ Submit
       \/ \E i \in 1..MaxTasks : CallbackRaises(i)
       \/ ExecutorShutdown
       \/ Tick
       \/ ShutdownSet
       \/ ShutdownJoin
       \/ ShutdownReturn

\* The background thread runs when it can, the clock advances, and every
\* thread inside schedule() or shutdown() goes on to the end of its call
SchedFairness ==
    /\ WF_svars(Loop \/ Timeout \/ Submit)
    /\ WF_svars(Tick)
    /\ \A c \in Threads : WF_svars(TakeId(c) \/ Push(c) \/ ScheduleReturn(c))
    /\ WF_svars(ShutdownJoin \/ ShutdownReturn)

SchedSpec == SchedInit /\ [][SchedNext]_vars /\ SchedFairness

(* ------------------------- app.py and handlers.py ---------------------- *)

\* The session the handlers below are about, and its invited users
TheSession == "s1"
Invited == <<"A", "B">>

\* time_in_minutes of the /gather-feedback commands, and of TheSession
Minutes == {1, 2}
TheLimit == 2

\* A tick of the clock is two minutes: longer than the minute by which the
\* reminder precedes the expiry
TickSeconds == 120
Ticks(seconds) == seconds \div TickSeconds

\* delay_seconds = time_in_minutes * 60
DelaySeconds(time_in_minutes) == time_in_minutes * 60

\* scheduler.schedule(delay_seconds, _expire_feedback_session, ...)
ExpiryDelay(time_in_minutes) == Ticks(DelaySeconds(time_in_minutes))
\* scheduler.schedule(delay_seconds - 60, _send_pending_reminder, ...)
ReminderDelay(time_in_minutes) == Ticks(DelaySeconds(time_in_minutes) - 60)

\* a handler that goes on to invite and schedule whatever add_session did
GatherAfterAdd_Ignore(exc) == "invite"

\* process_gather_feedback_request after add_session: a ValueError leaves the
\* try block for the except clause, else the invitations are sent
GatherAfterAdd(exc) == IF exc = "" THEN "invite" ELSE "return"

\* process_gather_feedback_request after the expiry is scheduled:
\* if delay_seconds > 60: schedule the reminder
GatherAfterExpiry(delay_seconds) ==
    IF delay_seconds > 60 THEN "schedule_reminder" ELSE "return"

\* a with block of the Condition that is left without releasing it
cond_release_Keep(owner, t) == owner

\* `with self._lock:` of the scheduler is left: the owner releases it
cond_release(owner, t) == IF owner = t THEN NoThread ELSE owner

\* an expiry callback that goes on without looking at what it removed
ExpireAfterRemove_NoCheck(session, has_feedback) ==
    IF has_feedback THEN "report" ELSE "notify"

\* _expire_feedback_session after remove_session: return if the session is
\* None, else post the partial report if there is feedback, then notify
ExpireAfterRemove(session, has_feedback) ==
    IF session = None THEN "return"
    ELSE IF has_feedback THEN "report" ELSE "notify"

\* handle_feedback_modal_submission after modify_session: an error ends the
\* handler, else it goes on to look at updated_session
ModalAfterModify(exc) == IF exc # "" THEN "return" ELSE "check"

\* handle_feedback_modal_submission: if updated_session.is_complete: process
\* and report
ModalAfterCheck(complete) == IF complete THEN "process" ELSE "return"

\* The objects referred to once thread t has dropped its local `session`
ReferencedBut(t) ==
    ({_sessions[sid] : sid \in SessionIds}
        \cup {view[sid] : sid \in SessionIds}
        \cup {call[u].session : u \in Threads}
        \cup {call[u].result : u \in Threads}
        \cup {flow[u].session : u \in Threads \ {t}}
        \cup {held}) \ {None}

\* The thread runs nothing: a Bolt listener thread or a pool worker is free
Available(t) == flow[t] = IdleFlow /\ pc[t] = "idle" /\ sched[t].pc = "idle"

ToStage(t, stage) ==
    flow' = [flow EXCEPT ![t] = IF stage = "return" THEN IdleFlow
                                ELSE [@ EXCEPT !.stage = stage]]

\* session_id = str(uuid.uuid4()): an id that nothing in the program holds
Fresh(session_id) ==
    /\ _sessions[session_id] = None
    /\ \A id \in TaskIds : callbacks[id].session_id # session_id
    /\ \A u \in Threads : flow[u].session_id # session_id

\* /gather-feedback: the handler builds the session and is about to call
\* session_store.add_session(new_session)
StartGather(t, session_id, time_in_minutes) ==
    /\ Available(t)
    /\ Fresh(session_id)
    /\ Call(t)
    /\ flow' = [flow EXCEPT ![t] = [IdleFlow EXCEPT !.fn = "gather", !.stage = "add",
                                                   !.session_id = session_id,
                                                   !.minutes = time_in_minutes]]
    /\ UNCHANGED svars
    /\ UNCHANGED << view, cond, callbacks, reports, notices >>

\* session_store.add_session(new_session)
GatherAdd(t) ==
    /\ flow[t].fn = "gather" /\ flow[t].stage = "add"
    /\ add_session(t, flow[t].session_id, Invited)
    /\ ToStage(t, "added")
    /\ UNCHANGED svars
    /\ UNCHANGED << view, cond, callbacks, reports, notices >>

\* add_session returned (a ValueError ends the handler); next are the
\* invitations
GatherAdded(t) ==
    /\ flow[t].fn = "gather" /\ flow[t].stage = "added"
    /\ Return(t)
    /\ ToStage(t, GatherAfterAdd(call[t].exc))
    /\ UNCHANGED svars
    /\ UNCHANGED << view, cond, callbacks, reports, notices >>

\* for target_user_id in member_user_ids: client.chat_postMessage(...); next
\* is scheduler.schedule(delay_seconds, _expire_feedback_session, ...)
GatherInvite(t) ==
    /\ flow[t].fn = "gather" /\ flow[t].stage = "invite"
    /\ ToStage(t, "schedule_expiry")
    /\ UNCHANGED storevars
    /\ UNCHANGED svars
    /\ UNCHANGED << view, cond, callbacks, reports, notices >>

\* scheduler.schedule(...): the expiry, then (delay_seconds > 60) the reminder
GatherSchedule(t) ==
    /\ flow[t].fn = "gather"
    /\ \/ /\ flow[t].stage = "schedule_expiry"
          /\ ScheduleCall(t, ExpiryDelay(flow[t].minutes))
          /\ ToStage(t, "expiry")
       \/ /\ flow[t].stage = "schedule_reminder"
          /\ ScheduleCall(t, ReminderDelay(flow[t].minutes))
          /\ ToStage(t, "reminder")
    /\ UNCHANGED storevars
    /\ UNCHANGED << view, cond, callbacks, reports, notices >>

\* schedule: task_id = next(self._task_counter); item = _ScheduledItem(...,
\* callback, args, kwargs)
ScheduleItem(t) ==
    /\ flow[t].fn = "gather"
    /\ TakeId(t)
    /\ callbacks' = [callbacks EXCEPT ![_task_counter] =
                        [fn |-> IF flow[t].stage = "expiry" THEN "expire" ELSE "remind",
                         session_id |-> flow[t].session_id]]
    /\ UNCHANGED storevars
    /\ UNCHANGED << view, flow, cond, reports, notices >>

\* schedule: with self._lock: the caller takes the Condition
CondAcquire(t) ==
    /\ flow[t].fn = "gather"
    /\ sched[t].pc = "push"
    /\ cond = NoThread
    /\ cond' = t
    /\ UNCHANGED storevars
    /\ UNCHANGED svars
    /\ UNCHANGED << view, flow, callbacks, reports, notices >>

\* schedule: heappush, notify, the with block ends, return task_id
SchedulePush(t) ==
    /\ flow[t].fn = "gather"
    /\ cond = t
    /\ Push(t)
    /\ cond' = cond_release(cond, t)
    /\ ToStage(t, IF flow[t].stage = "expiry"
                   THEN GatherAfterExpiry(DelaySeconds(flow[t].minutes))
                   ELSE "return")
    /\ UNCHANGED storevars
    /\ UNCHANGED << view, callbacks, reports, notices >>

\* The feedback modal is submitted: handle_feedback_modal_submission is about
\* to call session_store.modify_session(session_id, _apply_feedback)
StartModal(t) ==
    /\ Available(t)
    /\ Call(t)
    /\ flow' = [flow EXCEPT ![t] = [IdleFlow EXCEPT !.fn = "modal", !.stage = "modify"]]
    /\ UNCHANGED svars
    /\ UNCHANGED << view, cond, callbacks, reports, notices >>

\* updated_session = session_store.modify_session(session_id, _apply_feedback)
ModalModify(t, user_id, feedback_item) ==
    /\ flow[t].fn = "modal" /\ flow[t].stage = "modify"
    /\ modify_session(t, TheSession, user_id, feedback_item)
    /\ ToStage(t, "modifying")
    /\ UNCHANGED svars
    /\ UNCHANGED << view, cond, callbacks, reports, notices >>

\* modify_session returns or raises: a ValueError is caught and the handler
\* returns, any other error leaves the handler; otherwise
\* if updated_session.is_complete: ...
ModalModified(t) ==
    /\ flow[t].fn = "modal" /\ flow[t].stage = "modifying"
    /\ Return(t)
    /\ LET stage == ModalAfterModify(call[t].exc) IN
        flow' = [flow EXCEPT ![t] =
                    IF stage = "return" THEN IdleFlow
                    ELSE [@ EXCEPT !.stage = stage, !.session = call[t].session]]
    /\ UNCHANGED svars
    /\ UNCHANGED << view, cond, callbacks, reports, notices >>

\* if updated_session.is_complete: the handler reads the session it got
\* back, after modify_session has released the lock
ModalCheck(t) ==
    /\ flow[t].fn = "modal" /\ flow[t].stage = "check"
    /\ LET stage == ModalAfterCheck(is_complete(heap[flow[t].session])) IN
        flow' = [flow EXCEPT ![t] =
                    IF stage = "return" THEN IdleFlow
                    ELSE [IdleFlow EXCEPT !.fn = "modal", !.stage = stage]]
    /\ heap' = Collect(heap, ReferencedBut(t))
    /\ acked' = Acked(heap', acked)
    /\ UNCHANGED << driver, _sessions, _max_sessions, _lock, pc, call, held >>
    /\ UNCHANGED svars
    /\ UNCHANGED << view, cond, callbacks, reports, notices >>

\* session_store.process_feedback(session_id): session = self.get_session(...)
ModalProcess(t) ==
    /\ flow[t].fn = "modal"
    /\ \/ /\ flow[t].stage = "process"
          /\ Call(t)
          /\ ToStage(t, "get")
       \/ /\ flow[t].stage = "get"
          /\ get_session(t, TheSession)
          /\ ToStage(t, "got")
    /\ UNCHANGED svars
    /\ UNCHANGED << view, cond, callbacks, reports, notices >>

\* get_session under the lock, for process_feedback (which raises ValueError
\* for None, caught by the handler) and for _send_pending_reminder (which
\* returns for None)
AppGet(t) ==
    /\ flow[t].fn \in {"modal", "remind"} /\ flow[t].stage = "got"
    /\ Get(t)
    /\ ToStage(t, IF _sessions[call[t].session_id] = None THEN "return" ELSE "got")
    /\ UNCHANGED svars
    /\ UNCHANGED << view, cond, callbacks, reports, notices >>

\* process_session(session); post_report_to_slack(...): the completion path
\* posts the report
ModalReport(t) ==
    /\ flow[t].fn = "modal" /\ flow[t].stage = "got"
    /\ Read(t)
    /\ reports' = Append(reports, "completion")
    /\ ToStage(t, "return")
    /\ UNCHANGED svars
    /\ UNCHANGED << view, cond, callbacks, notices >>

\* A pool worker takes a callback the scheduler submitted and is about to
\* make its first call of the registry
StartCallback(t, i) ==
    /\ Available(t)
    /\ i \in 1..Len(log)
    /\ log[i].outcome = "submitted"
    /\ callbacks[log[i].item.task_id].fn \in {"expire", "remind"}
    /\ Call(t)
    /\ flow' = [flow EXCEPT ![t] =
                   [IdleFlow EXCEPT !.fn = callbacks[log[i].item.task_id].fn,
                                    !.stage = "call",
                                    !.task_id = log[i].item.task_id,
                                    !.session_id =
                                        callbacks[log[i].item.task_id].session_id]]
    /\ callbacks' = [callbacks EXCEPT ![log[i].item.task_id].fn = "taken"]
    /\ UNCHANGED svars
    /\ UNCHANGED << view, cond, reports, notices >>

\* _expire_feedback_session is called directly with the id of a session
\* that the registry does not hold, as tests/test_expiry_hook.py calls it
ExpireCall(t) ==
    /\ Available(t)
    /\ _task_counter = 0
    /\ _sessions[TheSession] = None
    /\ \A u \in Threads : flow[u].fn # "gather"
    /\ Call(t)
    /\ flow' = [flow EXCEPT ![t] = [IdleFlow EXCEPT !.fn = "expire", !.stage = "call",
                                                   !.session_id = TheSession]]
    /\ UNCHANGED svars
    /\ UNCHANGED << view, cond, callbacks, reports, notices >>

\* _expire_feedback_session: session = session_store.remove_session(session_id)
ExpireRemove(t) ==
    /\ flow[t].fn = "expire" /\ flow[t].stage = "call"
    /\ remove_session(t, flow[t].session_id)
    /\ flow' = [flow EXCEPT ![t].stage = "removing", ![t].removals = @ + 1]
    /\ UNCHANGED svars
    /\ UNCHANGED << view, cond, callbacks, reports, notices >>

\* remove_session under the lock: the pop, whose result becomes the
\* callback's local `session`
ExpireTake(t) ==
    /\ flow[t].fn = "expire" /\ flow[t].stage = "removing"
    /\ Remove(t)
    /\ flow' = [flow EXCEPT ![t].session = _sessions[call[t].session_id]]
    /\ UNCHANGED svars
    /\ UNCHANGED << view, cond, callbacks, reports, notices >>

\* remove_session returned: if session is None: return;
\* has_feedback = bool(session.feedback_items)
ExpireRemoved(t) ==
    /\ flow[t].fn = "expire" /\ flow[t].stage = "removing"
    /\ Return(t)
    /\ LET session == call[t].result
           has_feedback == session # None /\ heap[session].feedback_items # << >>
           stage == ExpireAfterRemove(session, has_feedback) IN
        flow' = [flow EXCEPT ![t] =
                    IF stage = "return" THEN IdleFlow
                    ELSE [@ EXCEPT !.stage = stage, !.got = session # None,
                                   !.has_feedback = has_feedback]]
    /\ UNCHANGED svars
    /\ UNCHANGED << view, cond, callbacks, reports, notices >>

\* _expire_feedback_session: if has_feedback: process_session(session);
\* post_report_to_slack(...)
ExpireReport(t) ==
    /\ flow[t].fn = "expire" /\ flow[t].stage = "report"
    /\ reports' = Append(reports, "expiry")
    /\ ToStage(t, "notify")
    /\ UNCHANGED storevars
    /\ UNCHANGED svars
    /\ UNCHANGED << view, cond, callbacks, notices >>

\* _expire_feedback_session: client.chat_postMessage(channel=initiator_user_id, ...)
ExpireNotify(t) ==
    /\ flow[t].fn = "expire" /\ flow[t].stage = "notify"
    /\ notices' = notices + 1
    /\ ToStage(t, "return")
    /\ heap' = Collect(heap, ReferencedBut(t))
    /\ acked' = Acked(heap', acked)
    /\ UNCHANGED << driver, _sessions, _max_sessions, _lock, pc, call, held >>
    /\ UNCHANGED svars
    /\ UNCHANGED << view, cond, callbacks, reports >>

\* _send_pending_reminder: session = session_store.get_session(session_id)
RemindGet(t) ==
    /\ flow[t].fn = "remind" /\ flow[t].stage = "call"
    /\ get_session(t, flow[t].session_id)
    /\ ToStage(t, "got")
    /\ UNCHANGED svars
    /\ UNCHANGED << view, cond, callbacks, reports, notices >>

\* _send_pending_reminder: if session is None or session.is_complete: return;
\* the pending users get a message
RemindRead(t) ==
    /\ flow[t].fn = "remind" /\ flow[t].stage = "got"
    /\ Read(t)
    /\ ToStage(t, "return")
    /\ UNCHANGED svars
    /\ UNCHANGED << view, cond, callbacks, reports, notices >>

\* The statements of the registry and of submit that a call runs between
\* taking the lock and returning
RegistryStep(t) ==
    /\ flow[t].fn # "none"
    /\ \/ AddCheck(t) \/ AddInsert(t) \/ ModifyLookup(t)
       \/ SubmitGuards(t) \/ SubmitAppendStep(t) \/ SubmitRemoveStep(t)
       \/ SubmitAddStep(t)
    /\ UNCHANGED svars
    /\ UNCHANGED avars

\* threading.Thread(target=self._run, daemon=True, name="scheduler")
SchedulerThread == "scheduler"

\* a loop that goes to the pool inside its with block
LoopLock_Held(d) == IF d = "submit" THEN SchedulerThread ELSE NoThread

\* _run: the owner of the Condition after a pass of the loop that ended in
\* d.  A wait gives the Condition up, break and continue leave the with
\* block, and the block ends before self._executor.submit
LoopLock(d) == NoThread

\* _run takes the Condition for a pass of its loop: it must be free
SchedulerStep ==
    /\ \/ /\ cond = NoThread
          /\ Loop
          /\ cond' = LoopLock(LoopDecision(_running, _queue, now))
       \/ cond = NoThread /\ Timeout /\ UNCHANGED cond
       \/ Submit /\ UNCHANGED cond
       \/ Tick /\ UNCHANGED cond
    /\ UNCHANGED storevars
    /\ UNCHANGED << view, flow, callbacks, reports, notices >>

\* One session is made in a run of AppSpec.
\* app.py: the registry without a limit, the scheduler started
AppSpecInit ==
    /\ SchedInit

AppNext ==
    \/ SchedulerStep
    \/ \E t \in Threads :
        \/ /\ _task_counter = 0
           /\ \A u \in Threads : flow[u].fn \notin {"gather", "expire"}
           /\ StartGather(t, TheSession, TheLimit)
        \/ GatherAdd(t)
        \/ GatherAdded(t)
        \/ GatherInvite(t)
        \/ GatherSchedule(t)
        \/ ScheduleItem(t)
        \/ CondAcquire(t)
        \/ SchedulePush(t)
        \/ StartModal(t)
        \/ \E s \in Submissions : ModalModify(t, s[1], s[2])
        \/ ModalModified(t)
        \/ ModalCheck(t)
        \/ ModalProcess(t)
        \/ AppGet(t)
        \/ ModalReport(t)
        \/ \E i \in 1..MaxTasks : StartCallback(t, i)
        \/ ExpireCall(t)
        \/ ExpireRemove(t)
        \/ ExpireTake(t)
        \/ ExpireRemoved(t)
        \/ ExpireReport(t)
        \/ ExpireNotify(t)
        \/ RemindGet(t)
        \/ RemindRead(t)
        \/ RegistryStep(t)

AppSpec == AppSpecInit /\ [][AppNext]_vars

(* ------------------------- /gather-feedback under a limit -------------- *)

\* The statements of add_session that a call runs between taking the lock
\* and returning
GatherRegistryStep(t) ==
    /\ flow[t].fn = "gather"
    /\ AddCheck(t) \/ AddInsert(t)
    /\ UNCHANGED svars
    /\ UNCHANGED avars

\* app.py: the registry with the limit of MAX_CONCURRENT_SESSIONS, or with
\* none, the scheduler started
GatherInit ==
    /\ SchedulerInit
    /\ AppInit
    /\ driver = "app"
    /\ _sessions = NoStore
    /\ _max_sessions \in {NormalizeMax(m) : m \in MaxSessionsArgs}
    /\ _lock = NoThread
    /\ heap = [o \in Refs |-> Free]
    /\ pc = [t \in Threads |-> "idle"]
    /\ call = [t \in Threads |-> IdleCall]
    /\ held = None
    /\ acked = [o \in Refs |-> {}]

\* /gather-feedback commands with their own session ids and time limits,
\* and the expiry and reminder callbacks of the sessions they made
GatherNext ==
    \/ SchedulerStep
    \/ \E t \in Threads :
        \/ \E session_id \in SessionIds, time_in_minutes \in Minutes :
              StartGather(t, session_id, time_in_minutes)
        \/ GatherAdd(t)
        \/ GatherAdded(t)
        \/ GatherInvite(t)
        \/ GatherSchedule(t)
        \/ ScheduleItem(t)
        \/ CondAcquire(t)
        \/ SchedulePush(t)
        \/ \E i \in 1..MaxTasks : StartCallback(t, i)
        \/ ExpireRemove(t)
        \/ ExpireTake(t)
        \/ ExpireRemoved(t)
        \/ ExpireNotify(t)
        \/ RemindGet(t)
        \/ AppGet(t)
        \/ RemindRead(t)
        \/ GatherRegistryStep(t)

GatherSpec == GatherInit /\ [][GatherNext]_vars

(* ------------------------- the modal handler's view -------------------- *)

\* handle_feedback_modal_submission: the branch taken on the outcome of
\* session_store.modify_session(session_id, _apply_feedback)
HandlerBranch(kind) ==
    IF ExceptionType(kind) = "none" THEN "recorded"
    ELSE IF ExceptionType(kind) = "ValueError" THEN "session_absent"
    ELSE "propagated"

(* ------------------------- properties ---------------------------------- *)

\* A thread is between the first and the last mutation of submit on object o
MidSubmit(o) == \E t \in Threads : pc[t] \in SubmitBodyPcs /\ call[t].session = o

\* A thread is running the modifier of a modify_session call
InModifier(t) == pc[t] \in ModifierPcs /\ call[t].op \in ModifyOps

\* The call of thread t has run all its statements and is about to return or raise
Returning(t, ops) == pc[t] = "return" /\ call[t].op \in ops

\* The users whose submit on object o has completed
Submitters(o) ==
    acked[o] \cup {call[t].user_id : t \in {u \in Threads :
                        Returning(u, SubmitOps) /\ call[u].session = o
                        /\ call[u].exc = ""}}

\* The number of sessions stored when thread t took the lock
CountAtEntry(t) == Cardinality({sid \in SessionIds : call[t].store0[sid] # None})

\* The registry of thread t's call was at its limit when the call took the lock
FullAtEntry(t) == _max_sessions # Unlimited /\ CountAtEntry(t) >= _max_sessions

\* Thread t is past the checks of add_session
PastAddCheck(t) == call[t].op = "add_session" /\ pc[t] \in {"add_insert", "return"}

\* Thread t is past the guards of a submit
PastSubmitCheck(t) ==
    call[t].op \in SubmitOps /\ pc[t] \in SubmitBodyPcs \cup {"return"}
    /\ call[t].session # None

\* C1: in every session on which no submit is under way, pending_users and
\* submitted_users are disjoint and their union is the set of target_user_ids
C1_Partition ==
    \A o \in Refs :
        Live(o) /\ ~MidSubmit(o) =>
            /\ heap[o].pending_users \cap heap[o].submitted_users = {}
            /\ heap[o].pending_users \cup heap[o].submitted_users
                   = Range(heap[o].target_user_ids)

\* C1 happens: a session after a successful and a failed submit, one user left
C1_Witness ==
    \E o \in Refs :
        /\ Live(o) /\ ~MidSubmit(o)
        /\ acked[o] # {}
        /\ heap[o].pending_users # {}
        /\ \E t \in Threads : Returning(t, SubmitOps) /\ call[t].session = o
                                /\ call[t].exc # ""

\* C2: once the submits on a session have completed, submitted_users is the
\* set of the users whose submit succeeded and pending_users has
\* len(target_user_ids) minus that many members, however the calls interleaved
C2_NoLostUpdate ==
    \A o \in Refs :
        Live(o) /\ ~MidSubmit(o) =>
            /\ heap[o].submitted_users = Submitters(o)
            /\ Cardinality(heap[o].pending_users)
                   = Len(heap[o].target_user_ids) - Cardinality(Submitters(o))

\* C2 happens: two threads called modify_session on one session at the same
\* time, for two participants, and both calls have completed
C2_Witness ==
    \E t \in Threads :
        /\ Returning(t, ModifyOps)
        /\ call[t].overlap
        /\ call[t].exc = ""
        /\ acked[call[t].session] # {}
        /\ call[t].user_id \notin acked[call[t].session]
        /\ Cardinality(heap[call[t].session].submitted_users) = 2

\* C3: at no moment do two threads run a modifier on the same session id
C3_NoInterleaving ==
    \A t, u \in Threads :
        t # u /\ InModifier(t) /\ InModifier(u)
            => call[t].session_id # call[u].session_id

\* C3 happens: a modifier mutates a session, called while another thread's
\* modifier was running on the same id
C3_Witness ==
    \E t \in Threads :
        InModifier(t) /\ pc[t] \in SubmitBodyPcs /\ call[t].overlap

\* C4: a thread that reads a session it got from get_session, while a
\* modifier of another thread runs on that session, reads it as it was when
\* the modifier began
C4_NoPartialView ==
    \A t, u \in Threads :
        pc[t] = "read" /\ InModifier(u) /\ call[u].session = call[t].result
            => Snapshot(heap[call[t].result]) = call[u].snap

\* C5: a submit for a user who is in submitted_users raises
\* AlreadySubmittedError and leaves the three collections as they were
C5_DuplicateSubmission ==
    \A t \in Threads :
        PastSubmitCheck(t) /\ call[t].user_id \in call[t].snap.submitted_users =>
            /\ pc[t] = "return"
            /\ call[t].exc = "AlreadySubmitted"
            /\ ExceptionType(call[t].exc) = "AlreadySubmittedError"
            /\ Snapshot(heap[call[t].session]) = call[t].snap

\* C5 happens: submit_feedback through the registry for a user who has submitted
C5_Witness ==
    \E t \in Threads :
        /\ Returning(t, ModifyOps)
        /\ call[t].session # None
        /\ call[t].user_id \in call[t].snap.submitted_users
        /\ call[t].snap.feedback_items # << >>

\* C6: a submit for a user who is not in target_user_ids raises the
\* not-a-participant ValueError and leaves the three collections as they were
C6_NotAParticipant ==
    \A t \in Threads :
        PastSubmitCheck(t)
        /\ call[t].user_id \notin Range(heap[call[t].session].target_user_ids) =>
            /\ pc[t] = "return"
            /\ call[t].exc = "NotAParticipant"
            /\ Snapshot(heap[call[t].session]) = call[t].snap

\* C6 happens: a submit on the bare session by an outsider, after a
\* participant has submitted
C6_Witness ==
    \E t \in Threads :
        /\ Returning(t, {"submit"})
        /\ call[t].user_id \in Outsiders
        /\ call[t].snap.submitted_users # {}
        /\ call[t].snap.pending_users # {}

\* C7: what modify_session raises for an absent id is an outcome of its own:
\* the modal handler takes its session-absent branch only when the id it
\* passed was not in the registry
C7_NotFoundDistinct ==
    \A t \in Threads :
        Returning(t, ModifyOps) /\ HandlerBranch(call[t].exc) = "session_absent"
            => call[t].store0[call[t].session_id] = None

\* C8: add_session on a registry that holds max_sessions sessions raises the
\* limit error and leaves the registry as it was
C8_CapacityExceeded ==
    \A t \in Threads :
        PastAddCheck(t) /\ FullAtEntry(t) =>
            /\ pc[t] = "return"
            /\ call[t].exc = "CapacityExceeded"
            /\ _sessions = call[t].store0
            /\ count = _max_sessions

\* C8 happens: add_session of a new id on a full registry
C8_Witness ==
    \E t \in Threads :
        /\ PastAddCheck(t) /\ FullAtEntry(t)
        /\ call[t].store0[call[t].session_id] = None

\* C9: a registry with a limit never holds more sessions than the limit
C9_CountBound == _max_sessions # Unlimited => count <= _max_sessions

\* C9 happens: an add_session filled the registry while another thread was
\* waiting to enter one of the registry's methods
C9_Witness ==
    \E t, u \in Threads :
        /\ PastAddCheck(t) /\ pc[t] = "return" /\ call[t].exc = ""
        /\ _max_sessions # Unlimited /\ count = _max_sessions
        /\ pc[u] = "acquire"

\* C10, as stated: add_session with an id that is in the registry raises the
\* duplicate-id error and leaves the registry as it was
C10_DuplicateId ==
    \A t \in Threads :
        PastAddCheck(t) /\ call[t].store0[call[t].session_id] # None =>
            /\ pc[t] = "return"
            /\ call[t].exc = "DuplicateId"
            /\ _sessions = call[t].store0

\* C10, amended: add_session with an id that is in the registry raises the
\* duplicate-id error if the registry is below its limit or has none, the
\* limit error if it is at its limit, and leaves the registry as it was
C10_DuplicateIdBelowLimit ==
    \A t \in Threads :
        PastAddCheck(t) /\ call[t].store0[call[t].session_id] # None =>
            /\ pc[t] = "return"
            /\ call[t].exc = IF FullAtEntry(t) THEN "CapacityExceeded" ELSE "DuplicateId"
            /\ _sessions = call[t].store0

\* C10 happens: add_session of a stored id on a registry with a limit it has
\* not reached
C10_Witness ==
    \E t \in Threads :
        /\ PastAddCheck(t) /\ call[t].store0[call[t].session_id] # None
        /\ _max_sessions # Unlimited /\ ~FullAtEntry(t)

(* ------------------------- Scheduler: claims --------------------------- *)

\* The task with this id has been handed to the pool, or the attempt failed
Handed(id) == \E i \in 1..Len(log) : log[i].item.task_id = id

Queued(id) == \E item \in _queue : item.task_id = id

\* a is served before b: earlier fire time, or the same and scheduled first
Before(a, b) ==
    \/ a.run_at < b.run_at
    \/ a.run_at = b.run_at /\ a.task_id < b.task_id

\* C11: tasks that are in the queue together are dispatched in the order of
\* (fire time, scheduling order): whenever the j-th dispatched task was
\* already queued when the i-th was popped, i < j, the i-th has the earlier
\* fire time or the same fire time and the smaller id.
C11_DispatchOrder ==
    \A i, j \in 1..Len(log) :
        (i < j /\ log[j].item.pops < i) => Before(log[i].item, log[j].item)

\* Three tasks, all queued before the first pop, t1 < t2 = t2b, dispatched
C11_Witness ==
    /\ Len(log) = 3
    /\ \A i \in 1..3 : log[i].item.pops = 0
    /\ log[1].item.run_at < log[2].item.run_at
    /\ log[2].item.run_at = log[3].item.run_at

\* C12: in every execution the sequence of tasks handed to the pool is
\* non-decreasing in fire time, and increasing in task id among tasks with
\* the same fire time.
C12_SortedDispatch ==
    \A i, j \in 1..Len(log) : i < j => Before(log[i].item, log[j].item)

\* C13: a callback scheduled with delay d at clock time t is never handed to
\* the pool at a clock time earlier than t + d: in every step that hands a
\* task to the pool, the clock is at or past the task's not_before.
C13_NotBeforeDelay ==
    [][Len(log') > Len(log) => now >= log'[Len(log')].item.not_before]_vars

\* A task scheduled at clock 0 with a delay up to MaxTime, for which the loop
\* went into its timed wait, has been handed to the pool: the loop has waited
\* until MaxTime, and no task is queued, held by the loop or on its way
C13_Witness ==
    /\ thread.pc \in {"top", "wait"}
    /\ thread.wake_at = MaxTime
    /\ _queue = {}
    /\ \A c \in Threads : sched[c].pc = "idle"
    /\ \E i \in 1..Len(log) : log[i].item.not_before = MaxTime

\* C14: schedule() with a negative delay fails with InvalidDelay: the step
\* that starts such a call ends in the raise, with no task id taken, nothing
\* queued and nothing handed to the pool, and the step that leaves the call
\* changes nothing else either.
C14_InvalidDelay ==
    [][\A c \in Threads :
        /\ (sched[c].pc = "idle" /\ sched'[c].pc # "idle" /\ sched'[c].delay < 0) =>
              /\ sched'[c].pc = "return"
              /\ sched'[c].exc = "InvalidDelay"
              /\ sched'[c].task_id = NoItem.task_id
              /\ UNCHANGED << _queue, _task_counter, thread, log >>
        /\ (sched[c].pc = "return" /\ sched'[c] # sched[c]) =>
              /\ sched'[c] = IdleSchedule
              /\ UNCHANGED << _queue, _task_counter, thread, log >>
      ]_vars

\* A call with a negative delay has raised while a task of another call is
\* in the queue
C14_Witness ==
    /\ \E c \in Threads :
          sched[c].pc = "return" /\ sched[c].delay < 0 /\ sched[c].exc = "InvalidDelay"
    /\ _queue # {}

\* C15: every scheduled task is handed to the pool at most once: no task id
\* is in the log twice, and a task that the loop has popped, handed over or
\* not yet, is no longer in the queue.
C15_AtMostOnce ==
    /\ \A i, j \in 1..Len(log) :
          i # j => log[i].item.task_id # log[j].item.task_id
    /\ \A i \in 1..Len(log) : ~Queued(log[i].item.task_id)
    /\ thread.pc = "submit" =>
          /\ ~Queued(thread.next_item.task_id)
          /\ ~Handed(thread.next_item.task_id)

\* Every task of the run has been handed over and the loop, after further
\* passes, waits for work
C15_Witness ==
    /\ Len(log) = MaxTasks
    /\ thread.pc = "wait"

\* C16: while shutdown() is not called, every task that schedule() has
\* accepted (its id is taken) is eventually handed to the pool, whatever the
\* interleaving of the calls with the loop; the background thread runs, the
\* clock advances and the calls of schedule() go on to their end.
C16_EventuallyDispatched ==
    \A id \in TaskIds : (id < _task_counter) ~> (Handed(id) \/ ~_running)

\* shutdown() was never called, the loop went through a timed wait, a task
\* was scheduled after the loop had popped another, and every task was
\* handed over
C16_Witness ==
    /\ _running /\ stopper.calls = 0
    /\ thread.wake_at = MaxTime
    /\ Len(log) = MaxTasks
    /\ \E i \in 1..Len(log) : log[i].item.pops > 0

\* shutdown() has returned at least once
ShutdownReturned == stopper.pc = "return" \/ stopper.calls > 0

C18_GracefulDrain ==
    stopper.pc = "return" => \A id \in stopper.pending : Handed(id)

\* C19: shutdown() always terminates and can be repeated: every call that
\* has requested the stop and waits for the background thread returns,
\* wherever the loop is and also when the thread has exited before.
C19_ShutdownTerminates ==
    (stopper.pc = "join") ~> (stopper.pc = "return")

\* The second call of shutdown(), made after the thread has exited with a
\* task left in the queue, returns
C19_Witness ==
    /\ stopper.calls = 1
    /\ stopper.pc = "return"
    /\ _queue # {}

\* A hand-over has failed: the pool refused the task, or its callback raised
Failed == \E i \in 1..Len(log) : log[i].outcome \in {"rejected", "raised"}

\* C20: neither a failure to submit a due task to the pool nor an exception
\* raised in a fired callback ends the background loop: the thread never
\* dies of it, and after such a failure every task that is in the queue is
\* still dispatched (unless shutdown() is called).
C20_LoopSurvives ==
    /\ [](thread.pc # "crashed")
    /\ \A id \in TaskIds : (Failed /\ Queued(id)) ~> (Handed(id) \/ ~_running)

\* The callback of the first task raised, the pool refused the second task,
\* and the third, which was queued before either, was dispatched after them
C20_Witness ==
    /\ Len(log) = 3
    /\ log[1].outcome = "raised"
    /\ log[2].outcome = "rejected"
    /\ log[3].item.pops = 0
    /\ thread.pc \in {"top", "wait"}

(* ------------------------- lifecycle claims ---------------------------- *)

\* C23: once a session has been force-completed no submission mutates it: in
\* every step, a session that is complete by complete_session before and
\* after the step has the same pending_users, submitted_users and
\* feedback_items after it as before.
C23_FrozenAfterCompletion ==
    [][\A o \in Refs :
        (heap[o]._is_complete /\ heap'[o]._is_complete) =>
            Snapshot(heap'[o]) = Snapshot(heap[o])]_vars

\* C24: outside a submit under way, a session is complete exactly when
\* complete_session was called on it or every target user has submitted; a
\* session made with no target users is complete from construction, and one
\* with target users that was not force-completed is not complete while a
\* target user has not submitted.
C24_CompleteIffDoneOrForced ==
    \A o \in Refs : (Live(o) /\ ~MidSubmit(o)) =>
        LET s == heap[o]
            targets == Range(s.target_user_ids) IN
        /\ is_complete(s) <=> (s._is_complete \/ targets \subseteq s.submitted_users)
        /\ (targets = {}) => is_complete(s)
        /\ (~s._is_complete /\ targets \ s.submitted_users # {}) => ~is_complete(s)

\* The last pending user's submit has finished on a session that was never
\* force-completed: the session is complete by its pending set alone.
C24_Witness ==
    \E o \in Refs :
        /\ Live(o) /\ ~MidSubmit(o)
        /\ heap[o].target_user_ids # << >>
        /\ heap[o].submitted_users = Range(heap[o].target_user_ids)
        /\ ~heap[o]._is_complete
        /\ is_complete(heap[o])

(* ------------------------- removal claims ------------------------------ *)

\* C26: remove_session detaches a session in one step under the lock.  When
\* the call returns it hands back what the registry held under the id when
\* the call took the lock (the session, or nothing for an absent id), the
\* registry is as it was then but for that id, which it no longer has, and
\* count is one less exactly when a session was returned.  The step that
\* hands a session to a caller takes it out of the registry, so that no
\* second remover can receive it.
C26_AtomicRemove ==
    /\ [](\A t \in Threads : Returning(t, {"remove_session"}) =>
            LET sid == call[t].session_id
                before == call[t].store0 IN
            /\ call[t].exc = ""
            /\ call[t].result = before[sid]
            /\ _sessions = [before EXCEPT ![sid] = None]
            /\ _sessions[sid] = None
            /\ count = CountAtEntry(t) - (IF before[sid] = None THEN 0 ELSE 1))
    /\ [][\A t \in Threads :
            (pc[t] = "remove" /\ pc'[t] = "return" /\ call'[t].result # None) =>
                /\ call'[t].result = _sessions[call[t].session_id]
                /\ \A sid \in SessionIds : _sessions'[sid] # call'[t].result
                /\ \A u \in Threads \ {t} : call'[u] = call[u]]_vars

\* A remover returns with the session while the other thread waits for the
\* lock; the registry holds one session less than when the remover entered.
C26_Witness ==
    \E t \in Threads :
        /\ Returning(t, {"remove_session"})
        /\ call[t].result # None
        /\ Live(call[t].result)
        /\ count = CountAtEntry(t) - 1
        /\ \E u \in Threads \ {t} : pc[u] = "acquire"

\* C27: mark_done takes the session out of the registry and marks it
\* complete, and is idempotent.  Its step under the lock leaves the id
\* absent; for an id that was absent already (a second call, or an id never
\* stored) the call ends there without an error and changes neither the
\* registry nor any session.  For a stored id the popped session is then
\* completed: it is complete afterwards, its pending and submitted users and
\* its feedback are untouched, and the registry, which complete_session does
\* not touch, holds it under no id.
C27_MarkDoneIdempotent ==
    [][\A t \in Threads :
        /\ (pc[t] = "mark_done_pop" /\ pc'[t] # "mark_done_pop") =>
            LET sid == call[t].session_id IN
            /\ _sessions'[sid] = None
            /\ \A other \in SessionIds \ {sid} : _sessions'[other] = _sessions[other]
            /\ IF _sessions[sid] = None
               THEN /\ pc'[t] = "idle" /\ call'[t] = IdleCall
                    /\ _sessions' = _sessions /\ heap' = heap /\ acked' = acked
               ELSE /\ pc'[t] = "complete_session"
                    /\ call'[t].session = _sessions[sid]
                    /\ call'[t].exc = ""
                    /\ heap' = heap
        /\ (pc[t] = "complete_session" /\ call[t].op = "mark_done"
                /\ pc'[t] # "complete_session") =>
            LET o == call[t].session IN
            /\ pc'[t] = "idle" /\ call'[t] = IdleCall
            /\ _sessions' = _sessions
            /\ \A sid \in SessionIds : _sessions'[sid] # o
            /\ heap'[o] = Free \/ (/\ heap'[o]._is_complete
                                   /\ is_complete(heap'[o])
                                   /\ Snapshot(heap'[o]) = Snapshot(heap[o]))]_vars

\* A second mark_done of an id whose session the first one removed and
\* completed; a reader still holds the completed session.
C27_Witness ==
    \E t \in Threads, o \in Refs :
        /\ driver = "app"
        /\ Live(o) /\ heap[o]._is_complete
        /\ heap[o].pending_users # {}
        /\ pc[t] = "mark_done_pop"
        /\ call[t].session_id = heap[o].session_id
        /\ _sessions[call[t].session_id] = None

(* ------------------------- lock claims --------------------------------- *)

\* C28: an exception of the modifier leaves modify_session with the lock
\* released.  The step in which a modify_session call raises gives the lock
\* up and hands the error to the caller's frame; only a thread inside a with
\* block ever owns the lock; and every thread that asks for the lock, at any
\* time, completes its call.
C28_RaiseReleasesLock ==
    /\ [][\A t \in Threads :
            (Returning(t, ModifyOps) /\ call[t].exc # "" /\ pc'[t] # "return") =>
                (_lock = t /\ _lock' = NoThread /\ pc'[t] = "idle")]_vars
    /\ [](_lock # NoThread => pc[_lock] \notin {"idle", "acquire", "read"})
    /\ \A t \in Threads : (pc[t] = "acquire") ~> (pc[t] = "idle")

\* A modify_session call whose modifier raised is about to leave the with
\* block while the other thread waits for the lock.
C28_Witness ==
    \E t \in Threads :
        /\ Returning(t, ModifyOps)
        /\ call[t].exc \in {"AlreadySubmitted", "NotAParticipant"}
        /\ call[t].session # None
        /\ _lock = t
        /\ \E u \in Threads \ {t} : pc[u] = "acquire"

(* ------------------------- task id claims ------------------------------ *)

\* The ids schedule() has given out: those of calls about to push, of the
\* items in the queue, of the item being submitted and of the tasks handed
\* to the pool
IssuedIds ==
    {sched[c].task_id : c \in {d \in Threads : sched[d].pc = "push"}}
        \cup {a.task_id : a \in _queue}
        \cup (IF thread.pc = "submit" THEN {thread.next_item.task_id} ELSE {})
        \cup {log[i].item.task_id : i \in 1..Len(log)}

\* C30: the ids schedule() returns increase and never repeat.  The id a call
\* takes is greater than every id given out before (so greater than the id
\* of every call that had returned when it started), the counter moves past
\* it, and at no time do two calls or two queued items carry the same id.
C30_IncreasingIds ==
    /\ [](/\ \A id \in IssuedIds : id >= 0 /\ id < _task_counter
          /\ \A a, b \in _queue : a.task_id = b.task_id => a = b
          /\ \A c, d \in Threads :
                (c # d /\ sched[c].pc = "push" /\ sched[d].pc = "push") =>
                    sched[c].task_id # sched[d].task_id
          /\ \A c \in Threads : sched[c].pc = "push" =>
                /\ \A a \in _queue : a.task_id # sched[c].task_id
                /\ \A i \in 1..Len(log) : log[i].item.task_id # sched[c].task_id
                /\ thread.pc = "submit" => thread.next_item.task_id # sched[c].task_id)
    /\ [][\A c \in Threads :
            (sched[c].pc = "take_id" /\ sched'[c].pc = "push") =>
                /\ \A id \in IssuedIds : sched'[c].task_id > id
                /\ _task_counter' > sched'[c].task_id]_vars

\* Two calls of schedule() hold their ids at the same time, after an earlier
\* call has returned; every id the run allows has been given out.
C30_Witness ==
    /\ \A c \in Threads : sched[c].pc = "push"
    /\ _task_counter = MaxTasks
    /\ Cardinality(IssuedIds) = MaxTasks

(* ------------------------- snapshot claims ----------------------------- *)

\* C25: the dict returned by get_all_sessions / get_active_sessions is not a
\* live view of the registry: no change made on it by its holder (an entry
\* replaced or deleted, a session reached through it changed) changes what
\* get_session returns for any id, the session and its contents, or what
\* count returns.
C25_SnapshotIsolated ==
    [][ViewMutation(Main) =>
        /\ _sessions' = _sessions
        /\ \A sid \in SessionIds :
              _sessions[sid] # None => heap'[_sessions[sid]] = heap[_sessions[sid]]]_vars

(* ------------------------- expiry and completion claims ---------------- *)

\* C22: a session is never reported twice: whatever the interleaving of the
\* completion path (the last submission's handler) and the expiry path (the
\* timer's callback), at most one report of the session is posted.
C22_ReportedOnce == Len(reports) <= 1

\* C21: the expiry callback re-checks that the session exists.  It calls
\* remove_session exactly once; when that returns nothing the callback
\* returns at once: no report is posted, no notification is sent and
\* neither the registry nor any session changes.  A report is posted and the
\* initiator is notified only by a callback whose removal returned a
\* session (the report only if that session had feedback), and each such
\* callback notifies once.
C21_ExpiryRechecks ==
    /\ [](\A t \in Threads : flow[t].fn = "expire" =>
            /\ flow[t].removals = (IF flow[t].stage = "call" THEN 0 ELSE 1)
            /\ flow[t].stage \in {"report", "notify"} => flow[t].got
            /\ flow[t].stage = "report" => flow[t].has_feedback)
    /\ [][\A t \in Threads :
            (flow[t].fn = "expire" /\ flow[t].stage = "removing"
                /\ pc[t] = "return" /\ pc'[t] = "idle") =>
                IF call[t].result = None
                THEN /\ flow'[t] = IdleFlow
                     /\ reports' = reports /\ notices' = notices
                     /\ _sessions' = _sessions /\ heap' = heap
                ELSE /\ flow'[t].got
                     /\ flow'[t].stage \in {"report", "notify"}
                     /\ _sessions'[TheSession] # call[t].result]_vars
    /\ [][\A t \in Threads :
            (flow[t].fn = "expire" /\ flow'[t].fn # "expire") =>
                flow[t].removals = 1]_vars
    /\ [][(notices' # notices) =>
            /\ notices' = notices + 1
            /\ \E t \in Threads : /\ flow[t].fn = "expire" /\ flow[t].got
                                  /\ flow[t].stage = "notify"
                                  /\ flow'[t] = IdleFlow]_vars
    /\ [][(Len(reports') > Len(reports) /\ reports'[Len(reports')] = "expiry") =>
            \E t \in Threads : /\ flow[t].fn = "expire" /\ flow[t].got
                               /\ flow[t].has_feedback]_vars

\* The callback's removal has returned nothing: the session is gone.
C21_Witness ==
    \E t \in Threads :
        /\ flow[t].fn = "expire" /\ flow[t].stage = "removing"
        /\ flow[t].removals = 1
        /\ pc[t] = "return"
        /\ call[t].result = None
        /\ _sessions[TheSession] = None

\* C29: the registry and the scheduler cannot deadlock on their locks.  No
\* thread is inside a call of schedule() while it owns the registry's lock,
\* so none waits for the scheduler's lock holding the registry's; no thread
\* is at or inside a call of the registry while it owns the scheduler's
\* lock; and no thread that owns the registry's lock asks for it again.
C29_NoLockNesting ==
    \A t \in Threads :
        /\ _lock = t => (sched[t].pc = "idle" /\ cond # t)
        /\ cond = t => (pc[t] = "idle" /\ _lock # t)
        /\ _lock = t => pc[t] # "acquire"

\* Both locks are owned at the same time, by different threads: one is in
\* schedule() about to push, the other inside a call of the registry.
C29_Witness ==
    \E t, u \in Threads :
        /\ t # u
        /\ cond = t /\ sched[t].pc = "push"
        /\ _lock = u /\ pc[u] \in SubmitBodyPcs

(* ------------------------- add_session, order of the checks ------------ *)

\* C40: add_session checks the capacity before the id.  A call that fails
\* fails with the capacity error whenever the registry was at its limit when
\* the call took the lock, also when the id was present as well, and with
\* the duplicate-id error only below the limit; whichever check fails, the
\* registry is as it was when the call took the lock.
C40_CapacityBeforeDuplicate ==
    \A t \in Threads :
        (Returning(t, {"add_session"}) /\ call[t].exc # "") =>
            /\ call[t].exc \in {"CapacityExceeded", "DuplicateId"}
            /\ call[t].exc = "CapacityExceeded" <=> FullAtEntry(t)
            /\ call[t].exc = "DuplicateId" =>
                  call[t].store0[call[t].session_id] # None
            /\ _sessions = call[t].store0
            /\ call[t].session = None

\* add_session of an id that is present, on a registry at its limit, is
\* rejected with the capacity error.
C40_Witness ==
    \E t \in Threads :
        /\ Returning(t, {"add_session"})
        /\ FullAtEntry(t)
        /\ call[t].store0[call[t].session_id] # None
        /\ call[t].exc = "CapacityExceeded"

(* ------------------------- SessionData claims -------------------------- *)

\* C36: feedback records correspond one to one with submissions: on every
\* session on which no call is under way, the number of feedback_items
\* equals the number of submitted_users, whatever calls of submit,
\* add_feedback and complete_session came before.
C36_OneRecordPerSubmission ==
    \A o \in Refs :
        (Live(o) /\ ~MidSubmit(o)) =>
            Len(heap[o].feedback_items) = Cardinality(heap[o].submitted_users)

\* The step constructs a session (which may take the place in the heap of
\* one that the caller dropped)
Constructs == \E sid \in SessionIds, targets \in TargetLists : New(Main, sid, targets)

\* C31: completion is terminal and force-completion is idempotent.  A
\* session that is complete stays complete in every step that leaves it
\* alive, and complete_session called on a session leaves it complete, with
\* pending_users, submitted_users and feedback_items as they were.
C31_CompletionTerminal ==
    /\ [][\A o \in Refs :
            (Live(o) /\ is_complete(heap[o]) /\ heap'[o] # Free /\ ~Constructs) =>
                /\ is_complete(heap'[o])
                /\ heap[o]._is_complete => heap'[o]._is_complete]_vars
    /\ [][\A t \in Threads :
            (pc[t] = "complete_session" /\ pc'[t] # "complete_session") =>
                LET o == call[t].session IN
                heap'[o] = Free \/ (/\ is_complete(heap'[o])
                                    /\ heap'[o]._is_complete
                                    /\ Snapshot(heap'[o]) = Snapshot(heap[o]))]_vars

\* complete_session is about to run a second time, on a session that was
\* force-completed with a user still pending.
C31_Witness ==
    \E t \in Threads :
        /\ pc[t] = "complete_session"
        /\ call[t].session # None
        /\ heap[call[t].session]._is_complete
        /\ heap[call[t].session].pending_users # {}

(* ------------------------- completion hand-off claims ------------------ *)

\* The reports the completion path has posted
CompletionReports == {i \in 1..Len(reports) : reports[i] = "completion"}

\* C34: when the last two pending participants submit concurrently, exactly
\* one of the two handler invocations sees the session complete and hands
\* it off: the completion path reports a session at most once.
C34_CompletionOnce == Cardinality(CompletionReports) <= 1

\* The sessions the registry holds
InRegistry == {_sessions[sid] : sid \in SessionIds} \ {None}

\* C35: a submission that races with the expiry of its session is ordered
\* against the removal.  No step changes pending_users, submitted_users or
\* feedback_items of a session that is out of the registry; a
\* modify_session that finds the id gone fails with NotFound having touched
\* no session; and the session the expiry path holds has a record for every
\* submission that was accepted, which is what has_feedback was computed of.
C35_LinearizedWithRemoval ==
    /\ [][\A o \in Refs :
            (Live(o) /\ o \notin InRegistry /\ heap'[o] # Free) =>
                Snapshot(heap'[o]) = Snapshot(heap[o])]_vars
    /\ [](\A t \in Threads :
            (Returning(t, ModifyOps) /\ call[t].exc = "NotFound") =>
                /\ call[t].session = None
                /\ call[t].store0[call[t].session_id] = None)
    /\ [](\A t \in Threads :
            (flow[t].fn = "expire" /\ flow[t].stage \in {"report", "notify"}) =>
                LET o == flow[t].session IN
                /\ o # None /\ Live(o) /\ o \notin InRegistry
                /\ flow[t].has_feedback <=> heap[o].feedback_items # << >>
                /\ acked[o] \subseteq heap[o].submitted_users
                /\ Len(heap[o].feedback_items) = Cardinality(heap[o].submitted_users))

\* The expiry callback holds the removed session, with feedback in it, while
\* a submission that came too late returns NotFound.
C35_Witness ==
    \E t, u \in Threads :
        /\ flow[t].fn = "expire" /\ flow[t].stage = "report"
        /\ flow[u].fn = "modal" /\ pc[u] = "return"
        /\ call[u].exc = "NotFound"

\* The gather handler of thread t is past add_session
PastAdd(t) ==
    /\ flow[t].fn = "gather"
    /\ flow[t].stage \in {"invite", "schedule_expiry", "expiry",
                          "schedule_reminder", "reminder"}

\* The task ids whose callback has function fn on session session_id
TasksOf(fn, session_id) ==
    {id \in TaskIds : callbacks[id].session_id = session_id
                      /\ callbacks[id].fn \in fn}

\* C37: when add_session rejects the new session, the gather handler ends
\* with no invitation sent and nothing scheduled.  A handler is at the
\* invitations or at the expiry only with its session in the registry; an
\* expiry task is made only for a session in the registry, once; a reminder
\* only after the expiry of the same session and only when delay_seconds
\* exceeds 60.
C37_RejectedSchedulesNothing ==
    /\ [][\A t \in Threads :
            (flow[t].fn = "gather" /\ flow[t].stage = "added"
                /\ call[t].exc # "" /\ flow'[t] # flow[t]) =>
                /\ flow'[t] = IdleFlow
                /\ UNCHANGED << _sessions, callbacks, _queue, _task_counter >>]_vars
    /\ [](\A t \in Threads :
            (PastAdd(t) /\ TasksOf({"expire", "taken"}, flow[t].session_id) = {}) =>
                _sessions[flow[t].session_id] # None)
    /\ [][\A id \in TaskIds :
            (callbacks[id] = NoCallback /\ callbacks'[id] # NoCallback) =>
                \E t \in Threads :
                    /\ PastAdd(t)
                    /\ callbacks'[id].session_id = flow[t].session_id
                    /\ \/ /\ callbacks'[id].fn = "expire"
                          /\ _sessions[flow[t].session_id] # None
                          /\ TasksOf({"expire", "remind", "taken"},
                                     flow[t].session_id) = {}
                       \/ /\ callbacks'[id].fn = "remind"
                          /\ DelaySeconds(flow[t].minutes) > 60
                          /\ Cardinality(TasksOf({"expire", "remind", "taken"},
                                                 flow[t].session_id)) = 1]_vars

\* add_session has rejected the session of a gather handler for the limit,
\* while the expiry of the session that fills the registry is scheduled.
C37_Witness ==
    \E t \in Threads :
        /\ flow[t].fn = "gather" /\ flow[t].stage = "added"
        /\ pc[t] = "return" /\ call[t].exc = "CapacityExceeded"
        /\ \E sid \in SessionIds \ {flow[t].session_id} :
              TasksOf({"expire"}, sid) # {}

\* Thread c is in a schedule() that was called after a shutdown() had returned
LateCall(c) == sched[c].pc # "idle" /\ sched[c].shutdowns > 0

\* C38: schedule() called after shutdown() has returned is accepted like any
\* other: a delay that is not negative raises nothing, the call takes an id
\* and pushes its task.  The task stays in the queue: once shutdown() has
\* returned the background thread stays exited, nothing leaves the queue and
\* nothing is handed to the pool.
C38_LateScheduleStranded ==
    /\ [](\A c \in Threads :
            LateCall(c) =>
                /\ thread.pc = "exited"
                /\ sched[c].exc = "" <=> sched[c].delay >= 0
                /\ sched[c].exc = "" => sched[c].pc \in {"take_id", "push"})
    /\ [][\A c \in Threads :
            (LateCall(c) /\ sched[c].pc = "push" /\ sched'[c].pc = "idle") =>
                /\ sched[c].task_id \notin {item.task_id : item \in _queue}
                /\ \E item \in _queue' : item.task_id = sched[c].task_id]_vars
    /\ [][stopper.calls > 0 =>
            /\ _queue \subseteq _queue'
            /\ Len(log') = Len(log)
            /\ thread' = thread]_vars

\* A task of a schedule() called after shutdown() had returned is pushed: the
\* call is at its push, the thread has exited
C38_Witness ==
    \E c \in Threads : LateCall(c) /\ sched[c].pc = "push"

\* The hand-overs of task id that the log holds
HandOvers(id) == {i \in 1..Len(log) : log[i].item.task_id = id}

\* C39: a due task whose submission to the pool raised is dropped.  The step
\* that fails finds the task out of the queue already and leaves the queue
\* as it is, and the loop goes on; the task is never in the queue again, is
\* handed over no second time, and its callback is never run.
C39_RejectedDropped ==
    /\ [][(Len(log') > Len(log) /\ log'[Len(log')].outcome = "rejected") =>
            /\ thread.next_item = log'[Len(log')].item
            /\ thread.next_item \notin _queue
            /\ _queue' = _queue
            /\ thread'.pc = "top"]_vars
    /\ [](\A i \in 1..Len(log) :
            log[i].outcome = "rejected" =>
                /\ ~Queued(log[i].item.task_id)
                /\ HandOvers(log[i].item.task_id) = {i}
                /\ ~(thread.pc = "submit"
                     /\ thread.next_item.task_id = log[i].item.task_id))
    /\ [][\A i \in 1..Len(log) :
            log[i].outcome = "rejected" => log'[i] = log[i]]_vars

\* The pool refused a task, the loop went on to hand over a later one, and
\* a task is still in the queue
C39_Witness ==
    \E i \in 1..Len(log) :
        /\ log[i].outcome = "rejected"
        /\ i < Len(log)
        /\ _queue # {}

\* Thread c is at the push of a task that fires before the one the loop waits for
EarlierPush(c) ==
    /\ thread.pc = "timed_wait"
    /\ sched[c].pc = "push"
    /\ sched[c].run_at < thread.wake_at

\* C32: the timed wait for the head of the queue is interrupted by the
\* scheduling of a task: the push wakes the loop, which looks at the queue
\* again.  The loop never waits past the fire time of the present head, no
\* task is popped over a queued one that fires before it, and a task pushed
\* during the wait with an earlier fire time is handed over (unless
\* shutdown() is called), not held back until the former head is due.
C32_EarlierTaskInterrupts ==
    /\ [][(thread.pc = "timed_wait" /\ _queue' # _queue) => thread'.pc = "top"]_vars
    /\ [](thread.pc = "timed_wait" =>
            /\ _queue # {}
            /\ thread.wake_at <= Peek(_queue).run_at)
    /\ [](\A i \in 1..Len(log) : \A item \in _queue :
            item.pops < i => lt(log[i].item, item))
    /\ \A id \in TaskIds :
          (\E c \in Threads : EarlierPush(c) /\ sched[c].task_id = id)
              ~> (Handed(id) \/ ~_running)

\* The loop waits for a head that is not due yet, the wait has not timed
\* out, and a task that is due now is at its push
C32_Witness ==
    \E c \in Threads :
        /\ EarlierPush(c)
        /\ _running
        /\ sched[c].run_at <= now
        /\ now < thread.wake_at

\* Thread t runs a callback that the scheduler was given
InCallback(t) == flow[t].fn \in {"expire", "remind"} /\ flow[t].task_id # NoItem.task_id

\* C33: the background thread hands every due callback to the pool and runs
\* none itself, and it hands over with the Condition released.  The
\* Condition is owned only by a thread inside the with block of schedule():
\* not by the loop between its passes or at the hand-over, and not by a
\* thread that runs a callback.  A callback runs on a worker, after the
\* hand-over of its task succeeded; the hand-over changes no handler and no
\* callback.  So a caller of schedule() enters its with block whenever no
\* other caller is inside.
C33_HandOffOutsideLock ==
    /\ [](cond # SchedulerThread)
    /\ [](\A t \in Threads :
            /\ cond = t => (sched[t].pc = "push" /\ ~InCallback(t))
            /\ InCallback(t) =>
                  \E i \in 1..Len(log) : /\ log[i].item.task_id = flow[t].task_id
                                         /\ log[i].outcome = "submitted"
            /\ (flow[t].fn = "gather" /\ sched[t].pc = "push" /\ cond \notin Threads)
                  => ENABLED CondAcquire(t))
    /\ [][Len(log') > Len(log) =>
            /\ thread.pc = "submit"
            /\ cond' = cond
            /\ flow' = flow /\ callbacks' = callbacks /\ pc' = pc]_vars

\* The loop is at the hand-over of a due task while a caller of schedule()
\* is inside its with block
C33_Witness ==
    /\ thread.pc = "submit"
    /\ cond \in Threads

====
